---------------------------- MODULE Spec2Model ----------------------------
(***************************************************************************)
(* Model of the tool round-trip loop of clai (provider adapters            *)
(* AnthropicProvider.streamChat and GroqProvider.streamChat), of the tool  *)
(* executor (executeTool) and of the path sandbox (validatePath).          *)
(*                                                                         *)
(* Strings that the code inspects character by character (paths, the       *)
(* patterns of the sandbox) are sequences of one-character strings, so     *)
(* that startsWith, includes and the regular expressions are computed and  *)
(* not assumed.  A path that is split at "/" is a sequence of such         *)
(* segments.                                                               *)
(***************************************************************************)
EXTENDS Integers, Sequences, FiniteSets, TLC

(***************************************************************************)
(* String helpers (String.prototype.startsWith / endsWith / includes,      *)
(* toLowerCase for the /i flag).                                           *)
(***************************************************************************)
StartsWith(s, p) == Len(p) <= Len(s) /\ SubSeq(s, 1, Len(p)) = p

EndsWith(s, p) == Len(p) <= Len(s) /\ SubSeq(s, Len(s) - Len(p) + 1, Len(s)) = p

MatchAt(s, p, i) == i >= 1 /\ i + Len(p) - 1 <= Len(s) /\ SubSeq(s, i, i + Len(p) - 1) = p

Includes(s, p) == \E i \in 1..(Len(s) + 1) : MatchAt(s, p, i)

UpperToLower ==
  ("A" :> "a") @@ ("B" :> "b") @@ ("C" :> "c") @@ ("D" :> "d") @@ ("E" :> "e") @@
  ("F" :> "f") @@ ("G" :> "g") @@ ("H" :> "h") @@ ("I" :> "i") @@ ("J" :> "j") @@
  ("K" :> "k") @@ ("L" :> "l") @@ ("M" :> "m") @@ ("N" :> "n") @@ ("O" :> "o") @@
  ("P" :> "p") @@ ("Q" :> "q") @@ ("R" :> "r") @@ ("S" :> "s") @@ ("T" :> "t") @@
  ("U" :> "u") @@ ("V" :> "v") @@ ("W" :> "w") @@ ("X" :> "x") @@ ("Y" :> "y") @@
  ("Z" :> "z")

ToLower(s) == [i \in 1..Len(s) |-> IF s[i] \in DOMAIN UpperToLower THEN UpperToLower[s[i]] ELSE s[i]]

(***************************************************************************)
(* node:path on POSIX.  An absolute path is kept as its sequence of        *)
(* segments; PathString gives the string the code compares and matches.    *)
(***************************************************************************)
RECURSIVE JoinSegs(_)
JoinSegs(segs) ==
  IF segs = <<>> THEN <<>>
  ELSE IF Len(segs) = 1 THEN segs[1]
  ELSE segs[1] \o <<"/">> \o JoinSegs(Tail(segs))

PathString(absSegs) == <<"/">> \o JoinSegs(absSegs)

\* path.resolve(from, filePath): an absolute filePath replaces from; "." and
\* empty segments are dropped, ".." removes the segment before it.
RECURSIVE Normalize(_, _)
Normalize(acc, segs) ==
  IF segs = <<>> THEN acc
  ELSE LET s == Head(segs) IN
       IF s = <<".", ".">>
         THEN Normalize(IF acc = <<>> THEN acc ELSE SubSeq(acc, 1, Len(acc) - 1), Tail(segs))
       ELSE IF s = <<".">> \/ s = <<>>
         THEN Normalize(acc, Tail(segs))
       ELSE Normalize(Append(acc, s), Tail(segs))

resolve(from, filePath) ==
  IF filePath.abs THEN Normalize(<<>>, filePath.segs) ELSE Normalize(from, filePath.segs)

RECURSIVE CommonPrefixLen(_, _)
CommonPrefixLen(a, b) ==
  IF a = <<>> \/ b = <<>> \/ Head(a) # Head(b) THEN 0
  ELSE 1 + CommonPrefixLen(Tail(a), Tail(b))

\* path.relative(from, to) of two absolute normalized paths, as a string.
relative(from, to) ==
  LET k == CommonPrefixLen(from, to)
      ups == [i \in 1..(Len(from) - k) |-> <<".", ".">>]
  IN JoinSegs(ups \o SubSeq(to, k + 1, Len(to)))

basename(absSegs) == IF absSegs = <<>> THEN <<>> ELSE absSegs[Len(absSegs)]

(***************************************************************************)
(* State.                                                                  *)
(***************************************************************************)
VARIABLES
  dirs,         \* the directories created on disk since start-up (absolute, link-free)
  files,        \* the regular files created on disk since start-up (absolute, link-free)
  sbInput,      \* the path string handed to validatePath (sandbox specification)
  sbResult,     \* the SandboxResult it returned, or NoResult before the call
  adapter,      \* which provider adapter runs the turn
  provider,     \* the provider stub of the turn
  budget,       \* how many more responses of the stub may carry tool calls
  round,        \* the for-loop variable round of streamChat
  pc,           \* the generator's position in streamChat
  yielded,      \* TRUE while the generator is suspended at a yield, waiting for next()
  event,        \* the StreamEvent last handed to the caller
  resp,         \* the provider response of the current round
  idx,          \* index of the tool call being processed in the current round
  call,         \* the tool call being processed: name, input, configuration entry
  approval,     \* the approval promise of the current call
  toolResults,  \* toolResults of the current round
  result,       \* the ToolResult of the last executeTool call of the loop
  warnings,     \* number of "Reached maximum tool call rounds" warnings yielded
  requests,     \* number of provider responses consumed in this turn
  toolRounds,   \* number of rounds in which tool calls were processed
  blocks,       \* the Anthropic adapter's content blocks and argument buffer of a response
  callLog,      \* what happened to the current call: executor invocations and disk accesses
  rtState,      \* retryWithBackoff: "idle", "running", "waiting", "returned" or "thrown"
  rtOptions,    \* its options: maxRetries, initialDelay, maxDelay, backoffMultiplier
  attempt,      \* its loop variable attempt
  lastError,    \* its variable lastError; once it has thrown, the error it threw
  invocations,  \* how many times it has invoked the operation
  delays,       \* the delays it has waited, in order
  aborted,      \* signal.aborted
  thrown,       \* the error with which the generator ended, if it threw
  model,        \* the model id streamChat was called with
  totalInputTokens,   \* totalInputTokens of streamChat
  totalOutputTokens,  \* totalOutputTokens of streamChat
  reportedInput,      \* input tokens the provider has reported in this turn
  reportedOutput,     \* output tokens the provider has reported in this turn
  totalCost,    \* usage.totalCost of the returned result, in 1e-7 dollars
  rateWarnings, \* number of rate-limit warnings yielded
  fullResponse, \* runStreamChat: TRUE when fullResponse is not empty
  localSegments,\* runStreamChat: the segments collected (text, tools started and done)
  turnResult,   \* runStreamChat: "pending", or what it returned: "value" or "null"
  uiError,      \* runStreamChat: TRUE once setError was called with a failure message
  totalUsage,   \* App: the session's totals of input tokens, output tokens and cost
  lifetimeSpend,\* config.json: the lifetimeSpend field
  auditLog,     \* the records appended to audit.log in the current round, in order
  auditWritable,\* whether the configuration directory and audit.log can be written
  apiKeys,      \* the providers whose API key is set in the environment
  apiMessages,  \* the tail of apiMessages no provider response has answered yet: the
                \* tool round last appended to it, if any
  search,       \* one call of searchFiles: the position of searchRecursive in the tree
                \* and the matches collected so far (search specification)
  glob,         \* a pattern and a name, and what the matcher applied to them returned
                \* (glob specification)
  fetch         \* a url, and what webFetch returned and did for it (fetch specification)

toolVars == <<search, glob, fetch, blocks>>
sbVars == <<sbInput, sbResult, toolVars>>
fsVars == <<dirs, files>>
loopVars == <<adapter, provider, budget, round, pc, yielded, event, resp, idx, call, approval,
              toolResults, result, warnings, requests, toolRounds, callLog>>
retryVars == <<rtState, rtOptions, attempt, lastError, invocations, delays>>
tokenVars == <<totalInputTokens, totalOutputTokens, reportedInput, reportedOutput>>
callerVars == <<fullResponse, localSegments, turnResult, uiError, totalUsage, lifetimeSpend>>
histVars == <<auditLog, auditWritable, apiKeys, apiMessages>>
turnVars == <<aborted, thrown, model, tokenVars, totalCost, rateWarnings, callerVars, histVars>>
vars == <<fsVars, sbVars, loopVars, retryVars, turnVars>>

(***************************************************************************)
(* The process environment and the disk the sandbox probes.                *)
(***************************************************************************)
\* Path segments used by the sample inputs.
SegDotDot == <<".", ".">>
SegSrc == <<"s", "r", "c">>
SegOut == <<"o", "u", "t">>
SegATs == <<"a", ".", "t", "s">>
SegEnv == <<".", "e", "n", "v">>
SegMyKey == <<"m", "y", ".", "k", "e", "y">>
SegIdRsa == <<"i", "d", "_", "r", "s", "a">>
SegNodeModules == <<"n", "o", "d", "e", "_", "m", "o", "d", "u", "l", "e", "s">>
SegGit == <<".", "g", "i", "t">>
SegConfig == <<"c", "o", "n", "f", "i", "g">>
SegTokenTxt == <<"T", "o", "k", "e", "n", ".", "t", "x", "t">>
SegEtc == <<"e", "t", "c">>
SegNewTxt == <<"n", "e", "w", ".", "t", "x", "t">>

\* process.cwd() at start-up and process.env.HOME: /h/p and /h.
CWD == << <<"h">>, <<"p">> >>
HOME == << <<"h">> >>
sep == <<"/">>

\* A directory beside the working directory, and a symbolic link to it from
\* inside the working directory: /h/p/out -> /h/o.
OutsideDir == << <<"h">>, <<"o">> >>
Symlinks == [p \in {CWD \o <<SegOut>>} |-> OutsideDir]

InitialDirs ==
  { <<>>, HOME, CWD, OutsideDir, <<SegEtc>>,
    CWD \o <<SegSrc>>, CWD \o <<SegNodeModules>>, CWD \o <<SegGit>> }

InitialFiles ==
  { CWD \o <<SegSrc, SegATs>>, CWD \o <<SegEnv>>, CWD \o <<SegGit, SegConfig>>,
    CWD \o <<SegNodeModules, SegEnv>>, CWD \o <<SegNodeModules, SegATs>>,
    CWD \o <<SegTokenTxt>>, CWD \o <<SegIdRsa>>,
    OutsideDir \o <<SegATs>>, OutsideDir \o <<SegEnv>> }

DirsOnDisk == InitialDirs \cup dirs

FilesOnDisk == InitialFiles \cup files

\* fs.realpathSync: every component is resolved through the symbolic links; it
\* throws (ok = FALSE) when a component does not exist.
RECURSIVE RealWalk(_, _)
RealWalk(cur, rest) ==
  IF rest = <<>> THEN [ok |-> TRUE, path |-> cur]
  ELSE LET nxt == Append(cur, Head(rest)) IN
       IF nxt \in DOMAIN Symlinks THEN RealWalk(Symlinks[nxt], Tail(rest))
       ELSE IF nxt \in DirsOnDisk THEN RealWalk(nxt, Tail(rest))
       ELSE IF nxt \in FilesOnDisk /\ Tail(rest) = <<>> THEN [ok |-> TRUE, path |-> nxt]
       ELSE [ok |-> FALSE, path |-> <<>>]

realpathSync(absSegs) == RealWalk(<<>>, absSegs)

\* Where the kernel puts a path whose last components may not exist yet (open
\* with O_CREAT, mkdir -p): links are followed, missing components are kept.
RECURSIVE FollowLinks(_, _)
FollowLinks(cur, rest) ==
  IF rest = <<>> THEN cur
  ELSE LET nxt == Append(cur, Head(rest)) IN
       IF nxt \in DOMAIN Symlinks THEN FollowLinks(Symlinks[nxt], Tail(rest))
       ELSE FollowLinks(nxt, Tail(rest))

DiskLocation(absSegs) == FollowLinks(<<>>, absSegs)

(***************************************************************************)
(* sandbox.ts                                                              *)
(***************************************************************************)
BLOCKED_PATHS ==
  { <<"/", "e", "t", "c">>, <<"/", "r", "o", "o", "t">>, <<"/", "v", "a", "r">>,
    <<"/", "s", "y", "s">>, <<"/", "p", "r", "o", "c">>, <<"/", "b", "o", "o", "t">>,
    <<"/", "u", "s", "r">>, <<"/", "s", "b", "i", "n">>, <<"/", "b", "i", "n">>,
    <<"/", "l", "i", "b">>, <<"/", "l", "i", "b", "6", "4">>, <<"/", "o", "p", "t">>,
    <<"/", "d", "e", "v">>, <<"/", "r", "u", "n">>, <<"/", "t", "m", "p">>,
    <<"/", "s", "n", "a", "p">>, <<"/", "m", "n", "t">>, <<"/", "m", "e", "d", "i", "a">>,
    <<"/", "S", "y", "s", "t", "e", "m">>, <<"/", "L", "i", "b", "r", "a", "r", "y">>,
    <<"/", "A", "p", "p", "l", "i", "c", "a", "t", "i", "o", "n", "s">>,
    <<"/", "V", "o", "l", "u", "m", "e", "s">>,
    <<"/", "p", "r", "i", "v", "a", "t", "e", "/", "e", "t", "c">>,
    <<"/", "p", "r", "i", "v", "a", "t", "e", "/", "v", "a", "r">> }

BLOCKED_HOME_DIRS ==
  { << <<".", "s", "s", "h">> >>, << <<".", "g", "n", "u", "p", "g">> >>,
    << <<".", "g", "p", "g">> >>, << <<".", "a", "w", "s">> >>,
    << <<".", "a", "z", "u", "r", "e">> >>, << <<".", "g", "c", "l", "o", "u", "d">> >>,
    << <<".", "d", "o", "c", "k", "e", "r">> >>, << <<".", "k", "u", "b", "e">> >>,
    << <<".", "c", "o", "n", "f", "i", "g">>, <<"g", "c", "l", "o", "u", "d">> >>,
    << <<".", "c", "o", "n", "f", "i", "g">>, <<"g", "h">> >>,
    << <<".", "p", "a", "s", "s", "w", "o", "r", "d", "-", "s", "t", "o", "r", "e">> >>,
    << <<".", "l", "o", "c", "a", "l">>, <<"s", "h", "a", "r", "e">>,
       <<"k", "e", "y", "r", "i", "n", "g", "s">> >>,
    << <<".", "b", "a", "s", "h", "r", "c">> >>, << <<".", "z", "s", "h", "r", "c">> >>,
    << <<".", "p", "r", "o", "f", "i", "l", "e">> >> }

\* pattern.test(s) for some pattern of BLOCKED_PATTERNS.
BLOCKED_PATTERNS(s) ==
  \/ EndsWith(s, <<".", "p", "e", "m">>)
  \/ EndsWith(s, <<".", "p", "1", "2">>)
  \/ Includes(s, <<"i", "d", "_", "r", "s", "a">>)
  \/ Includes(s, <<"i", "d", "_", "e", "d", "2", "5", "5", "1", "9">>)
  \/ Includes(s, <<"i", "d", "_", "e", "c", "d", "s", "a">>)
  \/ Includes(s, <<"i", "d", "_", "d", "s", "a">>)
  \/ EndsWith(s, <<".", "p", "p", "k">>)

\* pattern.test(s) for some pattern of SENSITIVE_PATTERNS.
SENSITIVE_PATTERNS(s) ==
  LET l == ToLower(s)
      secret == <<"s", "e", "c", "r", "e", "t">>
      yml == <<".", "y", "m", "l">>
      yaml == <<".", "y", "a", "m", "l">>
      json == <<".", "j", "s", "o", "n">>
  IN
  \* /\.env($|\.)/
  \/ \E i \in 1..Len(s) :
        /\ MatchAt(s, <<".", "e", "n", "v">>, i)
        /\ (i + 4 = Len(s) + 1 \/ (i + 4 <= Len(s) /\ s[i + 4] = "."))
  \* /\.key$/
  \/ EndsWith(s, <<".", "k", "e", "y">>)
  \* /credentials/i
  \/ Includes(l, <<"c", "r", "e", "d", "e", "n", "t", "i", "a", "l", "s">>)
  \* /secrets?\.ya?ml$/i
  \/ \E e \in {secret \o yml, secret \o <<"s">> \o yml,
               secret \o yaml, secret \o <<"s">> \o yaml} : EndsWith(l, e)
  \* /\.npmrc$/ and /\.netrc$/
  \/ EndsWith(s, <<".", "n", "p", "m", "r", "c">>)
  \/ EndsWith(s, <<".", "n", "e", "t", "r", "c">>)
  \* /\.git\/config$/ and /\.git-credentials$/
  \/ EndsWith(s, <<".", "g", "i", "t", "/", "c", "o", "n", "f", "i", "g">>)
  \/ EndsWith(s, <<".", "g", "i", "t", "-", "c", "r", "e", "d", "e", "n", "t", "i", "a", "l", "s">>)
  \* /auth.*\.json$/i
  \/ /\ EndsWith(l, json)
     /\ \E i \in 1..Len(l) : MatchAt(l, <<"a", "u", "t", "h">>, i) /\ i + 4 <= Len(l) - 4
  \* /token/i and /password/i
  \/ Includes(l, <<"t", "o", "k", "e", "n">>)
  \/ Includes(l, <<"p", "a", "s", "s", "w", "o", "r", "d">>)
  \* /api[_-]?key/i
  \/ \E m \in {<<>>, <<"_">>, <<"-">>} : Includes(l, <<"a", "p", "i">> \o m \o <<"k", "e", "y">>)

ReasonOutside == "Access denied: path is outside working directory"
ReasonResolvesOutside == "Access denied: path resolves outside working directory"
ReasonSystem == "Access denied: system directory"
ReasonSensitiveDir == "Access denied: sensitive directory"
ReasonCritical == "Access denied: critical security file"
ReasonSensitiveFile == "Warning: sensitive file detected"
ReasonNodeModules == "Access denied: node_modules directory"
NoReason == "(no reason)"

SandboxResult(allowed, requiresApproval, reason) ==
  [allowed |-> allowed, requiresApproval |-> requiresApproval, reason |-> reason]

\* The node_modules rule evaluated before the sensitive rule.
ApprovalRulesModulesFirst(name, absPath) ==
  IF Includes(absPath, <<"/">> \o SegNodeModules \o <<"/">>)
    THEN SandboxResult(FALSE, FALSE, ReasonNodeModules)
  ELSE IF SENSITIVE_PATTERNS(name) \/ SENSITIVE_PATTERNS(absPath)
    THEN SandboxResult(TRUE, TRUE, ReasonSensitiveFile)
  ELSE SandboxResult(TRUE, FALSE, NoReason)

\* The last rules of validatePath: sensitive patterns first (approval), then
\* node_modules (denial), otherwise allowed.
ApprovalRules(name, absPath) ==
  IF SENSITIVE_PATTERNS(name) \/ SENSITIVE_PATTERNS(absPath)
    THEN SandboxResult(TRUE, TRUE, ReasonSensitiveFile)
  ELSE IF Includes(absPath, <<"/">> \o SegNodeModules \o <<"/">>)
    THEN SandboxResult(FALSE, FALSE, ReasonNodeModules)
  ELSE SandboxResult(TRUE, FALSE, NoReason)

\* validatePath with the rules in the order of the code; first match wins.
validatePath(filePath) ==
  LET absSegs == resolve(CWD, filePath)
      absPath == PathString(absSegs)
      cwdStr == PathString(CWD)
      relPath == relative(CWD, absSegs)
      real == realpathSync(absSegs)
      realPath == PathString(real.path)
      name == basename(absSegs)
  IN
  IF StartsWith(relPath, <<".", ".">>)
     \/ (~StartsWith(absPath, cwdStr \o sep) /\ absPath # cwdStr)
    THEN SandboxResult(FALSE, FALSE, ReasonOutside)
  ELSE IF real.ok /\ ~StartsWith(realPath, cwdStr \o sep) /\ realPath # cwdStr
    THEN SandboxResult(FALSE, FALSE, ReasonResolvesOutside)
  ELSE IF \E blocked \in BLOCKED_PATHS :
            StartsWith(absPath, blocked \o <<"/">>) \/ absPath = blocked
    THEN SandboxResult(FALSE, FALSE, ReasonSystem)
  ELSE IF /\ HOME # <<>>
          /\ \E dir \in BLOCKED_HOME_DIRS :
               LET fullBlocked == PathString(HOME \o dir) IN
               StartsWith(absPath, fullBlocked \o <<"/">>) \/ absPath = fullBlocked
    THEN SandboxResult(FALSE, FALSE, ReasonSensitiveDir)
  ELSE IF BLOCKED_PATTERNS(name) \/ BLOCKED_PATTERNS(absPath)
    THEN SandboxResult(FALSE, FALSE, ReasonCritical)
  ELSE ApprovalRules(name, absPath)


\* sandbox.ts validateFileSize: a file above MAX_FILE_SIZE (500 * 1024 bytes)
\* is refused; a path that cannot be stat'ed is allowed.
FileSize(loc) == IF loc = CWD \o <<SegTokenTxt>> THEN 600000 ELSE 100

validateFileSize(absSegs) ==
  LET loc == realpathSync(absSegs) IN
  IF loc.ok /\ FileSize(loc.path) > 500 * 1024
    THEN SandboxResult(FALSE, FALSE, "File too large")
    ELSE SandboxResult(TRUE, FALSE, NoReason)

(***************************************************************************)
(* tools.ts: the tool executor.  A tool input is the parsed argument       *)
(* object: hasPath says that input.path is a string (path is then its      *)
(* value), hasArg that the tool's other required string (content, pattern, *)
(* url) is present.  Where input.path is no string, path tells a missing   *)
(* field "." from a value of another type.                                 *)
(***************************************************************************)
ToolNames == {"read_file", "list_dir", "search_files", "write_file", "web_fetch"}

FilePath(segs) == [abs |-> FALSE, segs |-> segs]
AbsPath(segs) == [abs |-> TRUE, segs |-> segs]
DotPath == FilePath(<< <<".">> >>)

\* The path strings the model sends in the sample tool calls.
PathOf(str) ==
  CASE str = "src/a.ts" -> FilePath(<<SegSrc, SegATs>>)
    [] str = ".env" -> FilePath(<<SegEnv>>)
    [] str = "../a.ts" -> FilePath(<<SegDotDot, SegATs>>)
    [] str = "out/new.txt" -> FilePath(<<SegOut, SegNewTxt>>)
    [] str = "out" -> FilePath(<<SegOut>>)
    [] OTHER -> DotPath

ToolInput(hasPath, path, hasArg) == [hasPath |-> hasPath, path |-> path, hasArg |-> hasArg]

\* A ToolResult together with what the call did to the disk: the accesses it
\* made (ops) and the files and directories it created.
ToolResult(output, isError, requiresApproval, ops, newFiles, newDirs) ==
  [output |-> output, isError |-> isError, requiresApproval |-> requiresApproval,
   ops |-> ops, files |-> newFiles, dirs |-> newDirs]

NoAccess(output, isError, requiresApproval) ==
  ToolResult(output, isError, requiresApproval, {}, {}, {})

DiskOp(op, loc) == [op |-> op, at |-> loc]

SensitiveNotice == "File may contain sensitive data (credentials, secrets, etc.)"

readFile(filePath, skipApprovalCheck) ==
  LET absSegs == resolve(CWD, filePath)
      pathCheck == validatePath(AbsPath(absSegs))
      loc == DiskLocation(absSegs)
  IN
  IF ~pathCheck.allowed THEN NoAccess(pathCheck.reason, TRUE, FALSE)
  ELSE IF pathCheck.requiresApproval /\ ~skipApprovalCheck
    THEN NoAccess(SensitiveNotice, FALSE, TRUE)
  ELSE IF ~validateFileSize(absSegs).allowed THEN NoAccess("File too large", TRUE, FALSE)
  ELSE IF loc \in FilesOnDisk
    THEN ToolResult("File: <path> <content>", FALSE, FALSE, {DiskOp("read", loc)}, {}, {})
  ELSE NoAccess("Error reading file", TRUE, FALSE)

listDir(dirPath) ==
  LET absSegs == resolve(CWD, dirPath)
      pathCheck == validatePath(AbsPath(absSegs))
      loc == DiskLocation(absSegs)
  IN
  IF ~pathCheck.allowed THEN NoAccess(pathCheck.reason, TRUE, FALSE)
  ELSE IF loc \in DirsOnDisk
    THEN ToolResult("Directory: <path> <entries>", FALSE, FALSE, {DiskOp("list", loc)}, {}, {})
  ELSE NoAccess("Error listing directory", TRUE, FALSE)

\* The scan of searchRecursive is not unfolded here: the result stands for
\* its list of matches.
searchFiles(dirPath) ==
  LET absSegs == resolve(CWD, dirPath)
      pathCheck == validatePath(AbsPath(absSegs))
      loc == DiskLocation(absSegs)
  IN
  IF ~pathCheck.allowed THEN NoAccess(pathCheck.reason, TRUE, FALSE)
  ELSE ToolResult("Found <n> file(s) / No files found", FALSE, FALSE,
                  {DiskOp("list", loc)}, {}, {})

\* The directories mkdirSync(dir, {recursive: true}) leaves in existence.
Prefixes(segs) == {SubSeq(segs, 1, n) : n \in 0..Len(segs)}

writeFile(filePath) ==
  LET absSegs == resolve(CWD, filePath)
      pathCheck == validatePath(AbsPath(absSegs))
      loc == DiskLocation(absSegs)
      parent == IF loc = <<>> THEN <<>> ELSE SubSeq(loc, 1, Len(loc) - 1)
  IN
  IF ~pathCheck.allowed THEN NoAccess(pathCheck.reason, TRUE, FALSE)
  ELSE IF ~StartsWith(PathString(absSegs), PathString(CWD))
    THEN NoAccess("Access denied: cannot write outside working directory", TRUE, FALSE)
  ELSE IF loc \in DirsOnDisk \/ \E d \in Prefixes(parent) : d \in FilesOnDisk
    THEN NoAccess("Error writing file", TRUE, FALSE)
  ELSE ToolResult("Written: <path> (<n> chars)", FALSE, FALSE, {DiskOp("write", loc)},
                  {loc} \ InitialFiles, Prefixes(parent) \ InitialDirs)

(***************************************************************************)
(* tools.ts webFetch.  A URL is kept as its scheme and its host as written, *)
(* a sequence of characters; an IPv6 literal is written in brackets.        *)
(***************************************************************************)
Url(scheme, host) == [scheme |-> scheme, host |-> host]

\* new URL(url): it throws for a string without scheme; protocol is the
\* scheme with its colon; hostname is the host in lower case, an IPv6
\* literal with its brackets.
UrlParses(url) == url.scheme # ""
UrlProtocol(url) == url.scheme \o ":"
UrlHostname(url) == ToLower(url.host)

Digits(from, to) == {ToString(d) : d \in from..to}

\* privatePatterns.some((pattern) => pattern.test(hostname)).
IsPrivateHostname(hostname) ==
  \/ ToLower(hostname) = <<"l", "o", "c", "a", "l", "h", "o", "s", "t">>
  \/ StartsWith(hostname, <<"1", "2", "7", ".">>)
  \/ StartsWith(hostname, <<"1", "0", ".">>)
  \/ /\ StartsWith(hostname, <<"1", "7", "2", ".">>)
     /\ Len(hostname) >= 7
     /\ \/ hostname[5] = "1" /\ hostname[6] \in Digits(6, 9)
        \/ hostname[5] = "2" /\ hostname[6] \in Digits(0, 9)
        \/ hostname[5] = "3" /\ hostname[6] \in Digits(0, 1)
     /\ hostname[7] = "."
  \/ StartsWith(hostname, <<"1", "9", "2", ".", "1", "6", "8", ".">>)
  \/ StartsWith(hostname, <<"1", "6", "9", ".", "2", "5", "4", ".">>)
  \/ hostname = <<":", ":", "1">>
  \/ StartsWith(ToLower(hostname), <<"f", "e", "8", "0", ":">>)
  \/ StartsWith(ToLower(hostname), <<"f", "c", "0", "0", ":">>)

\* curlOk: whether execSync("curl ...") returned the page or threw.
webFetch(url, curlOk) ==
  IF ~UrlParses(url) THEN NoAccess("Invalid URL", TRUE, FALSE)
  ELSE IF UrlProtocol(url) \notin {"http:", "https:"}
    THEN NoAccess("Only HTTP/HTTPS URLs are supported", TRUE, FALSE)
  ELSE IF IsPrivateHostname(UrlHostname(url))
    THEN NoAccess("Access to private networks and localhost is not allowed", TRUE, FALSE)
  ELSE IF curlOk
    THEN ToolResult("Content from <host>", FALSE, FALSE, {DiskOp("fetch", <<>>)}, {}, {})
    ELSE ToolResult("Failed to fetch URL", TRUE, FALSE, {DiskOp("fetch", <<>>)}, {}, {})

\* The url of the sample calls of web_fetch.
PublicUrl == Url("https", <<"e", "x", "a", "m", "p", "l", "e", ".", "c", "o", "m">>)

executeTool(name, input, skipApprovalCheck) ==
  CASE name = "read_file" ->
         IF ~input.hasPath THEN NoAccess("Missing or invalid 'path'", TRUE, FALSE)
         ELSE readFile(PathOf(input.path), skipApprovalCheck)
    [] name = "list_dir" ->
         listDir(IF input.hasPath THEN PathOf(input.path) ELSE DotPath)
    [] name = "search_files" ->
         IF ~input.hasArg THEN NoAccess("Missing or invalid 'pattern'", TRUE, FALSE)
         ELSE searchFiles(IF input.hasPath THEN PathOf(input.path) ELSE DotPath)
    [] name = "write_file" ->
         IF ~input.hasPath THEN NoAccess("Missing or invalid 'path'", TRUE, FALSE)
         ELSE IF ~input.hasArg THEN NoAccess("Missing or invalid 'content'", TRUE, FALSE)
         ELSE writeFile(PathOf(input.path))
    [] name = "web_fetch" ->
         IF ~input.hasArg THEN NoAccess("Missing or invalid 'url'", TRUE, FALSE)
         ELSE webFetch(PublicUrl, TRUE)
    [] OTHER -> NoAccess("Unknown tool", TRUE, FALSE)

\* config.ts getToolPermission: the entry of the configuration file for the
\* tool, "ask" when there is none.  The file is read again on every call.
ConfigEntries == {"unset", "always", "ask", "never"}

getToolPermission(configured) == IF configured = "unset" THEN "ask" ELSE configured

(***************************************************************************)
(* tools.ts: searchFiles and searchRecursive.  The directory tree is read   *)
(* as the scan goes: what readdirSync and statSync return for the next      *)
(* entry is an input.  Of the list of matches the length is kept.           *)
(***************************************************************************)
\* if (depth > 5 || matches.length >= 50) return.
MaxDepth == 5
MaxMatches == 50

\* Largest number of directory entries one scan reads.
MaxEntries == 52

Search(status, depth, matches, scanned) ==
  [status |-> status, depth |-> depth, matches |-> matches, scanned |-> scanned]

NoSearch == Search("idle", 0, 0, 0)

\* The test at the head of searchRecursive: TRUE when the call goes on to
\* read the directory.
searchRecursive(depth, matches) == ~(depth > MaxDepth \/ matches >= MaxMatches)

(***************************************************************************)
(* tools.ts matchesPattern and context-files.ts shouldIgnoreFile.  A string *)
(* is a sequence of characters.  The source of the regular expression is    *)
(* built by the four replacements in the order of the code, each working    *)
(* on the output of the one before; it is kept as a sequence of tokens: a   *)
(* character still to be read by a later replacement ("raw"), an escaped    *)
(* character ("lit"), the dot ("any") and the class [^/] under a star       *)
(* ("nonsep*").                                                             *)
(***************************************************************************)
RegexSpecials == {".", "+", "^", "$", "{", "}", "(", ")", "|", "[", "]", "\\"}

Raw(c) == [t |-> "raw", c |-> c]
Lit(c) == [t |-> "lit", c |-> c]
AnyChar == [t |-> "any", c |-> "."]
NonSepStar == [t |-> "nonsep*", c |-> "*"]
AnyStar == [t |-> "any*", c |-> "*"]

\* .replace(/[.+^${}()|[\]\\]/g, "\\$&")
EscapeSpecials(str) ==
  [i \in 1..Len(str) |-> IF str[i] \in RegexSpecials THEN Lit(str[i]) ELSE Raw(str[i])]

\* .replace(/\*\*/g, ".*"): the dot and a star the next replacement reads.
RECURSIVE ReplaceDoubleStar(_)
ReplaceDoubleStar(toks) ==
  IF toks = <<>> THEN <<>>
  ELSE IF Len(toks) >= 2 /\ toks[1] = Raw("*") /\ toks[2] = Raw("*")
    THEN <<AnyChar, Raw("*")>> \o ReplaceDoubleStar(SubSeq(toks, 3, Len(toks)))
    ELSE <<Head(toks)>> \o ReplaceDoubleStar(Tail(toks))

\* .replace(/\*/g, "[^/]*")
ReplaceStar(toks) == [i \in 1..Len(toks) |-> IF toks[i] = Raw("*") THEN NonSepStar ELSE toks[i]]

\* .replace(/\?/g, ".")
ReplaceQuestion(toks) == [i \in 1..Len(toks) |-> IF toks[i] = Raw("?") THEN AnyChar ELSE toks[i]]

GlobToRegex(pattern) ==
  ReplaceQuestion(ReplaceStar(ReplaceDoubleStar(EscapeSpecials(pattern))))

\* A character under the flag "i".
FoldCase(c) == IF c \in DOMAIN UpperToLower THEN UpperToLower[c] ELSE c

\* new RegExp("^" + source + "$", flags).test(str).
RECURSIVE RegexTest(_, _, _)
RegexTest(toks, ignoreCase, str) ==
  IF toks = <<>> THEN str = <<>>
  ELSE
    LET tok == Head(toks) IN
    CASE tok.t = "nonsep*" ->
           \/ RegexTest(Tail(toks), ignoreCase, str)
           \/ str # <<>> /\ Head(str) # "/" /\ RegexTest(toks, ignoreCase, Tail(str))
      [] tok.t = "any*" ->
           \/ RegexTest(Tail(toks), ignoreCase, str)
           \/ str # <<>> /\ RegexTest(toks, ignoreCase, Tail(str))
      [] tok.t = "any" ->
           str # <<>> /\ Head(str) # "\n" /\ RegexTest(Tail(toks), ignoreCase, Tail(str))
      [] OTHER ->
           /\ str # <<>>
           /\ IF ignoreCase THEN FoldCase(tok.c) = FoldCase(Head(str)) ELSE tok.c = Head(str)
           /\ RegexTest(Tail(toks), ignoreCase, Tail(str))

\* pattern.split("/").pop()
RECURSIVE LastSegment(_)
LastSegment(str) ==
  IF \A i \in 1..Len(str) : str[i] # "/" THEN str
  ELSE LastSegment(Tail(str))

matchesPattern(filename, pattern) ==
  RegexTest(GlobToRegex(LastSegment(pattern)), TRUE, filename)

\* filePath.replace(/^\.\//, "")
NormalizedPath(filePath) ==
  IF StartsWith(filePath, <<".", "/">>) THEN SubSeq(filePath, 3, Len(filePath)) ELSE filePath

\* pattern.replace(/\/$/, "")
WithoutTrailingSlash(pattern) ==
  IF pattern # <<>> /\ pattern[Len(pattern)] = "/"
    THEN SubSeq(pattern, 1, Len(pattern) - 1) ELSE pattern

shouldIgnoreFile(filePath, ignorePatterns) ==
  \E k \in 1..Len(ignorePatterns) :
    \/ RegexTest(GlobToRegex(ignorePatterns[k]), FALSE, NormalizedPath(filePath))
    \/ StartsWith(NormalizedPath(filePath), WithoutTrailingSlash(ignorePatterns[k]))

\* Longest pattern and longest name of the samples.
MaxGlobLen == 3

PatternChars == {"a", ".", "*", "?", "/"}
NameChars == {"a", "A", ".", "/"}

CharSeqs(chars) == UNION {[1..n -> chars] : n \in 1..MaxGlobLen}

Glob(pattern, name, fn, outcome) ==
  [pattern |-> pattern, name |-> name, fn |-> fn, result |-> outcome]

NoGlob == Glob(<<>>, <<>>, "none", FALSE)

\* Names and address literals of the public internet.
PublicHosts ==
  {<<"e", "x", "a", "m", "p", "l", "e", ".", "c", "o", "m">>,
   <<"8", ".", "8", ".", "8", ".", "8">>,
   <<"1", "7", "2", ".", "3", "2", ".", "0", ".", "1">>,
   <<"[", "2", "0", "0", "1", ":", "d", "b", "8", ":", ":", "1", "]">>}

\* localhost, as the user or the model may write it.
LocalhostNames ==
  {<<"l", "o", "c", "a", "l", "h", "o", "s", "t">>,
   <<"L", "O", "C", "A", "L", "H", "O", "S", "T">>}

\* 127.0.0.0/8 and ::1.
LoopbackHosts ==
  {<<"1", "2", "7", ".", "0", ".", "0", ".", "1">>,
   <<"1", "2", "7", ".", "8", ".", "9", ".", "1">>,
   <<"[", ":", ":", "1", "]">>}

\* 10/8, 172.16/12, 192.168/16 and fc00::/7.
PrivateHosts ==
  {<<"1", "0", ".", "1", ".", "2", ".", "3">>,
   <<"1", "7", "2", ".", "1", "6", ".", "0", ".", "1">>,
   <<"1", "7", "2", ".", "3", "1", ".", "2", "5", "5", ".", "1">>,
   <<"1", "9", "2", ".", "1", "6", "8", ".", "1", ".", "1">>,
   <<"[", "f", "c", "0", "0", ":", ":", "1", "]">>,
   <<"[", "f", "d", "1", "2", ":", "3", "4", "5", "6", ":", ":", "1", "]">>}

\* 169.254/16 and fe80::/10.
LinkLocalHosts ==
  {<<"1", "6", "9", ".", "2", "5", "4", ".", "1", "6", "9", ".", "2", "5", "4">>,
   <<"[", "f", "e", "8", "0", ":", ":", "1", "]">>}
Fetch(url, status, outcome) == [url |-> url, status |-> status, result |-> outcome, ops |-> {}]

NoFetch == Fetch(PublicUrl, "none", [output |-> "(none)", isError |-> FALSE])

(***************************************************************************)
(* provider-anthropic.ts: the stream events of one response.  The argument *)
(* text of a tool_use block arrives in fragments; a text is a sequence of  *)
(* fragments, "p" standing for a member "path": "...".                     *)
(***************************************************************************)
MaxBlocks == 2

MaxFragments == 3

JsonFragments == {"{", "p", "}"}

\* JSON.parse: the object a text denotes, by the names of its members; ok is
\* FALSE where JSON.parse throws.
JsonParse(text) ==
  CASE text = <<"{", "}">> -> [ok |-> TRUE, keys |-> {}]
    [] text = <<"{", "p", "}">> -> [ok |-> TRUE, keys |-> {"path"}]
    [] OTHER -> [ok |-> FALSE, keys |-> {}]

\* try { JSON.parse(currentToolJson || "{}") } catch { {} }.
ParseToolJson(text) ==
  LET parsed == JsonParse(IF text = <<>> THEN <<"{", "}">> ELSE text) IN
  IF parsed.ok THEN parsed.keys ELSE {}

\* A content block as the adapter holds it: its type, whether its text is
\* not empty, its input once it is set, and whether its events have begun
\* and ended.
ContentBlock(type, text, input, phase) ==
  [type |-> type, text |-> text, input |-> input, phase |-> phase]

NoBlock == ContentBlock("(none)", FALSE, {}, "unsent")

BlockIndices == 0..(MaxBlocks - 1)

\* contentBlocks and currentToolJson of the adapter, and for each index the
\* fragments the provider has sent with it.
NoBlocks ==
  [contentBlocks |-> [i \in BlockIndices |-> NoBlock],
   currentToolJson |-> <<>>,
   sent |-> [i \in BlockIndices |-> <<>>]]

ToolsIdle == search = NoSearch /\ glob = NoGlob /\ fetch = NoFetch /\ blocks = NoBlocks

(***************************************************************************)
(* retry.ts: checkRateLimit, isRetryableError, retryWithBackoff.           *)
(*                                                                         *)
(* A thrown value is described by what the code inspects of it: whether it *)
(* is an object, an instance of Error whose message contains one of the    *)
(* network codes, its status and code properties and its retry-after       *)
(* header.  id tells the thrown values of one run apart.                   *)
(***************************************************************************)
Thrown(isObject, isError, network, hasStatus, status, code, retryAfter) ==
  [isObject |-> isObject, isError |-> isError, network |-> network, hasStatus |-> hasStatus,
   status |-> status, code |-> code, retryAfter |-> retryAfter, id |-> 0]

\* let lastError: unknown (undefined)
NoError == Thrown(FALSE, FALSE, FALSE, FALSE, 0, "", "")

ApiError(status, retryAfter) == Thrown(TRUE, TRUE, FALSE, TRUE, status, "", retryAfter)

\* The values the operation throws in the samples: a non-object, plain and
\* connection errors (no status), and API errors, whose message is the status
\* followed by the server's text.
SampleErrors ==
  { Thrown(FALSE, FALSE, FALSE, FALSE, 0, "", ""),          \* throw "a string"
    Thrown(TRUE, TRUE, FALSE, FALSE, 0, "", ""),            \* new Error("bad input")
    Thrown(TRUE, TRUE, TRUE, FALSE, 0, "", ""),             \* Error: read ECONNRESET
    ApiError(400, ""), ApiError(499, ""), ApiError(500, ""), ApiError(599, ""), ApiError(600, ""),
    ApiError(429, ""), ApiError(429, "7"), ApiError(429, "0"),
    ApiError(429, "Wed, 21 Oct 2026 07:28:00 GMT"),
    Thrown(TRUE, TRUE, FALSE, TRUE, 429, "rate_limit_exceeded", "7"),
    Thrown(TRUE, FALSE, FALSE, FALSE, 0, "rate_limit_exceeded", "") }

\* parseInt(retryAfter, 10) of the sample header values; NaN for a date.
ParseInt(s) ==
  CASE s = "7" -> [nan |-> FALSE, n |-> 7]
    [] s = "0" -> [nan |-> FALSE, n |-> 0]
    [] OTHER -> [nan |-> TRUE, n |-> 0]

RateLimitInfo(isRateLimited, hasRetryAfter, retryAfter, message) ==
  [isRateLimited |-> isRateLimited, hasRetryAfter |-> hasRetryAfter, retryAfter |-> retryAfter,
   message |-> message]

checkRateLimit(error) ==
  IF ~error.isObject THEN RateLimitInfo(FALSE, FALSE, 0, "")
  ELSE IF error.hasStatus /\ error.status = 429
    THEN IF error.retryAfter # "" /\ ~ParseInt(error.retryAfter).nan
           THEN RateLimitInfo(TRUE, TRUE, ParseInt(error.retryAfter).n, "Rate limit exceeded")
           ELSE RateLimitInfo(TRUE, FALSE, 0, "Rate limit exceeded")
  ELSE IF error.code = "rate_limit_exceeded"
    THEN RateLimitInfo(TRUE, FALSE, 0, "Rate limit exceeded")
  ELSE RateLimitInfo(FALSE, FALSE, 0, "")

\* The status test taking every status from 429 up as a server failure.
isRetryableErrorFrom429(error) ==
  IF ~error.isObject THEN FALSE
  ELSE IF error.isError /\ error.network THEN TRUE
  ELSE IF error.hasStatus THEN error.status >= 429 /\ error.status < 600
  ELSE FALSE

isRetryableError(error) ==
  IF ~error.isObject THEN FALSE
  ELSE IF error.isError /\ error.network THEN TRUE
  ELSE IF error.hasStatus THEN error.status >= 500 /\ error.status < 600
  ELSE FALSE

RetryOptions(maxRetries, initialDelay, maxDelay, backoffMultiplier) ==
  [maxRetries |-> maxRetries, initialDelay |-> initialDelay, maxDelay |-> maxDelay,
   backoffMultiplier |-> backoffMultiplier]

\* The defaults of the destructuring at the head of retryWithBackoff.
DefaultRetryOptions == RetryOptions(3, 1000, 30000, 2)

RECURSIVE Pow(_, _)
Pow(b, e) == IF e = 0 THEN 1 ELSE b * Pow(b, e - 1)

Min(a, b) == IF a < b THEN a ELSE b

\* The delay without the cap.
BackoffDelayUncapped(o, k) == o.initialDelay * Pow(o.backoffMultiplier, k)

\* Math.min(initialDelay * Math.pow(backoffMultiplier, attempt), maxDelay)
BackoffDelay(o, k) == Min(o.initialDelay * Pow(o.backoffMultiplier, k), o.maxDelay)

\* for (let attempt = 0; attempt <= maxRetries; attempt++)
RetryLoopCondition(o, k) == k <= o.maxRetries

\* The last-attempt test left out.
IsLastAttemptNever(o, k) == FALSE

\* if (attempt === maxRetries) throw error
IsLastAttempt(o, k) == k = o.maxRetries

\* retryWithBackoff is entered with the given options.
RetryStart(o) ==
  /\ rtState' = "running"
  /\ rtOptions' = o
  /\ attempt' = 0
  /\ lastError' = NoError
  /\ invocations' = 0
  /\ delays' = <<>>

\* One pass through the loop body: the operation is invoked and either
\* returns (failed = FALSE) or throws e.  A failure is thrown on, or the delay
\* is computed and the timer set.
RetryAttempt(failed, e) ==
  /\ rtState = "running"
  /\ RetryLoopCondition(rtOptions, attempt)
  /\ invocations' = invocations + 1
  /\ IF ~failed
       THEN /\ rtState' = "returned"
            /\ UNCHANGED <<lastError, delays>>
       ELSE /\ lastError' = [e EXCEPT !.id = invocations + 1]
            /\ IF ~isRetryableError(e) \/ IsLastAttempt(rtOptions, attempt)
                 THEN rtState' = "thrown" /\ UNCHANGED delays
                 ELSE /\ rtState' = "waiting"
                      /\ delays' = Append(delays, BackoffDelay(rtOptions, attempt))
  /\ UNCHANGED <<rtOptions, attempt>>

\* The timer of the wait fires: attempt++.
RetryTimer ==
  /\ rtState = "waiting"
  /\ rtState' = "running"
  /\ attempt' = attempt + 1
  /\ UNCHANGED <<rtOptions, lastError, invocations, delays>>

\* The loop ends with its condition false: throw lastError.
RetryLoopExit ==
  /\ rtState = "running"
  /\ ~RetryLoopCondition(rtOptions, attempt)
  /\ rtState' = "thrown"
  /\ UNCHANGED <<rtOptions, attempt, lastError, invocations, delays>>

\* retryWithBackoff not running.
RetryIdle ==
  /\ rtState = "idle"
  /\ rtOptions = DefaultRetryOptions
  /\ attempt = 0
  /\ lastError = NoError
  /\ invocations = 0
  /\ delays = <<>>

(***************************************************************************)
(* The tool round-trip loop: AnthropicProvider.streamChat and              *)
(* GroqProvider.streamChat.  The generator runs from one suspension point  *)
(* to the next: a yield hands an event to the caller and waits for the     *)
(* caller's next(); the await of the approval promise waits for approve()  *)
(* or deny().                                                              *)
(***************************************************************************)
Adapters == {"anthropic", "groq"}

MAX_TOOL_ROUNDS == 10

\* Largest number of tool calls in one provider response.
MaxCalls == 2

\* The stop reason with which a provider asks for tool results.
StopReasons(a) == IF a = "anthropic" THEN {"tool_use", "end_turn"} ELSE {"tool_calls", "stop"}

ToolCall(name, input, configured) == [name |-> name, input |-> input, configured |-> configured]

NoInput == ToolInput(FALSE, ".", FALSE)

\* An input.path that is given and is not a string, as in {"path": 42}.
NotAString == "(number)"

\* The arguments that do not fit the tool's input_schema: a required field
\* is missing or a field has another type than string.
Malformed(name, input) ==
  \/ ~input.hasPath /\ input.path = NotAString
  \/ name \in {"read_file", "write_file"} /\ ~input.hasPath
  \/ name \in {"write_file", "search_files", "web_fetch"} /\ ~input.hasArg

NoCall == ToolCall("(none)", NoInput, "unset")

\* Streamed arguments that are no JSON text: the text of a write to src/a.ts
\* cut off before its end, as in {"path": "src/a.ts", "content": "x
UnparsableInput == [hasPath |-> TRUE, path |-> "src/a.ts", hasArg |-> TRUE, truncated |-> TRUE]

\* The mutation of C39: a parser that recovers the fields of a text that is
\* cut off.
ParseToolInputLenient(raw) == ToolInput(raw.hasPath, raw.path, raw.hasArg)

\* try { JSON.parse(arguments || "{}") } catch { {} }: the input of a tool
\* call is the parse of its streamed arguments, the empty object when they
\* do not parse.
ParseToolInput(raw) == IF "truncated" \in DOMAIN raw THEN NoInput ELSE raw

\* The sample arguments the model sends to each tool.
ToolInputs(name) ==
  CASE name = "read_file" ->
         {ToolInput(TRUE, "src/a.ts", FALSE), ToolInput(TRUE, ".env", FALSE),
          ToolInput(TRUE, "../a.ts", FALSE), NoInput}
    [] name = "write_file" ->
         {ToolInput(TRUE, "src/a.ts", TRUE), ToolInput(TRUE, "out/new.txt", TRUE),
          ToolInput(TRUE, "../a.ts", TRUE), ToolInput(FALSE, ".", TRUE)}
    [] name = "list_dir" ->
         {NoInput, ToolInput(TRUE, "out", FALSE), ToolInput(FALSE, NotAString, FALSE)}
    [] name = "search_files" ->
         {ToolInput(FALSE, ".", TRUE), NoInput, ToolInput(FALSE, NotAString, TRUE)}
    [] OTHER ->
         {ToolInput(FALSE, ".", TRUE), NoInput}

AllCalls ==
  UNION {{ToolCall(name, input, configured) :
            input \in ToolInputs(name) \cup {UnparsableInput}, configured \in ConfigEntries} :
         name \in ToolNames}

\* The provider stubs.  The varied stub asks for any tool call, in its first
\* response only; the persistent stub can ask for another tool call in every
\* response, always the same one.  The tool calls of one response are
\* repetitions of one call.
PersistentCalls ==
  {ToolCall("write_file", ToolInput(TRUE, "src/a.ts", TRUE), "unset"),
   ToolCall("list_dir", NoInput, "always")}

Repertoire(stub) == IF stub = "varied" THEN AllCalls ELSE PersistentCalls

\* The metered stub asks for tool calls like the persistent one, as often as
\* the varied one, and reports varying token usage; the other stubs report
\* the same usage in every response.
Stubs == {"varied", "persistent", "metered"}

\* Only the turns of the metered stub see a request rejected or are
\* cancelled by the user.
Faulty(stub) == stub = "metered"

\* Only turns of the varied stub in the Groq adapter, the one that writes
\* the audit log, run with an audit log that cannot be written.
AuditFaulty(a, stub) == a = "groq" /\ stub = "varied"

\* The usage a response reports: the token counts, and whether the chunk
\* that carries them has a choice (Groq) or is a usage-only chunk.
Usage(input, output, withChoice) == [input |-> input, output |-> output, withChoice |-> withChoice]

FixedUsage == Usage(3, 2, TRUE)

UsageReports(a, stub) ==
  IF stub # "metered" THEN {FixedUsage}
  ELSE {Usage(u[1], u[2], c) : u \in {<<10, 5>>, <<3, 2>>},
                               c \in IF a = "groq" THEN BOOLEAN ELSE {TRUE}}

\* Number of tool-requesting responses the varied stub sends in a turn.
MaxVariedResponses == 1

ToolResponses(stub) == IF stub = "persistent" THEN MAX_TOOL_ROUNDS + 1 ELSE MaxVariedResponses

StreamEvent(type, name, output, isError) ==
  [type |-> type, name |-> name, output |-> output, isError |-> isError]

NoEvent == StreamEvent("(none)", "(none)", "", FALSE)

NoToolResult == [output |-> "(none)", isError |-> FALSE]

NoLog == [execs |-> 0, probes |-> 0, ops |-> {}, asked |-> FALSE, isSensitiveFile |-> FALSE]

NoResponse ==
  [nCalls |-> 0, stopReason |-> "(none)", text |-> FALSE, call |-> NoCall, usage |-> Usage(0, 0, TRUE)]

\* The loop condition with an off-by-one comparison.
LoopConditionInclusive(r) == r <= MAX_TOOL_ROUNDS

\* for (let round = 0; round < MAX_TOOL_ROUNDS; round++)
LoopCondition(r) == r < MAX_TOOL_ROUNDS

\* The last-round test comparing against the ceiling itself.
IsLastRoundAtCeiling(r) == r = MAX_TOOL_ROUNDS

\* if (round === MAX_TOOL_ROUNDS - 1)
IsLastRound(r) == r = MAX_TOOL_ROUNDS - 1

\* The loop breaks unless the response stopped for tool results and tool
\* calls were processed in this round.
BreakAfterRound(a, response, results) ==
  IF a = "anthropic"
    THEN response.stopReason # "tool_use" \/ Len(results) = 0
    ELSE response.stopReason # "tool_calls" \/ response.nCalls = 0

\* The approval promise not awaited.
ApprovalNotAwaited(a) == TRUE

\* const approved = await approvalPromise: the generator goes on once the
\* promise is settled.
ApprovalSettled(a) == a \in {"approved", "denied"}

\* The Anthropic adapter with the write_file gate left out.
AnthropicGateOpen(c) ==
  [disabled |-> FALSE, needsApproval |-> FALSE, probe |-> FALSE, isSensitiveFile |-> FALSE]

\* The decision taken for a tool call before any event is yielded for it.  The
\* Anthropic adapter asks approval for write_file and for nothing else; it
\* reads no configuration.
AnthropicGate(c) ==
  [disabled |-> FALSE, needsApproval |-> c.name = "write_file", probe |-> FALSE,
   isSensitiveFile |-> FALSE]

\* The Groq adapter: a tool configured "never" is disabled; approval is asked
\* when the permission is "ask", for write_file unless "always", and for
\* read_file when the probe executeTool(name, input, false) reports a
\* sensitive file.
GroqNeedsApproval(c, permission, isSensitiveFile) ==
  \/ permission = "ask"
  \/ (c.name = "write_file" /\ permission # "always")
  \/ (c.name = "read_file" /\ permission # "always" /\ isSensitiveFile)

GroqGate(c) ==
  LET permission == getToolPermission(c.configured)
      probe == c.name = "read_file" /\ permission # "always"
      isSensitiveFile == probe /\ executeTool(c.name, c.input, FALSE).requiresApproval
  IN
  IF permission = "never"
    THEN [disabled |-> TRUE, needsApproval |-> FALSE, probe |-> FALSE, isSensitiveFile |-> FALSE]
    ELSE [disabled |-> FALSE, needsApproval |-> GroqNeedsApproval(c, permission, isSensitiveFile),
          probe |-> probe, isSensitiveFile |-> isSensitiveFile]

Gate(a, c) == IF a = "anthropic" THEN AnthropicGate(c) ELSE GroqGate(c)

\* The text content of the assistant message a round appends to apiMessages:
\* the Anthropic adapter keeps the non-empty text blocks of the response, the
\* Groq adapter writes content: null.
AssistantText(a, r) == IF a = "anthropic" THEN r.text ELSE FALSE

\* What a round appends to apiMessages: the assistant message with its text
\* content and its tool calls, and the tool results.
HistoryEntry(text, nCalls, results) ==
  [text |-> text, toolCalls |-> nCalls, toolResults |-> results]

\* audit.ts: a record of audit.log.
AuditEntry(action, toolName, outcome) ==
  [action |-> action, toolName |-> toolName, result |-> outcome]

\* logAudit with the catch block throwing the failure on.
logAuditRethrowing(log, writable, entry) ==
  [log |-> IF writable THEN Append(log, entry) ELSE log, threw |-> ~writable]

\* logAudit: mkdirSync and appendFileSync inside try, the failure caught and
\* printed.  The record is appended if the directory and the file can be
\* written; logAudit never throws.
logAudit(log, writable, entry) ==
  [log |-> IF writable THEN Append(log, entry) ELSE log, threw |-> FALSE]

\* The calls of logAudit one statement after the other; a call that throws
\* ends the sequence.
RECURSIVE LogAll(_, _, _)
LogAll(log, writable, entries) ==
  IF entries = <<>> THEN [log |-> log, threw |-> FALSE]
  ELSE LET r == logAudit(log, writable, Head(entries)) IN
       IF r.threw THEN r ELSE LogAll(r.log, writable, Tail(entries))

\* The audit calls of the adapters.  Only the Groq adapter has any:
\* logToolCall before the permission is looked up, logToolDenied for a
\* disabled tool and for a denied call, logSensitiveFileAccess when the
\* approval of a sensitive read is settled, logToolApproved after
\* executeTool.
AuditAtCall(a, c) ==
  IF a = "anthropic" THEN <<>>
  ELSE <<AuditEntry("tool_call", c.name, "(none)")>>
       \o (IF getToolPermission(c.configured) = "never"
             THEN <<AuditEntry("tool_denied", c.name, "denied")>>
             ELSE <<>>)

AuditAtApproval(a, c, isSensitiveFile, approved) ==
  IF a = "anthropic" THEN <<>>
  ELSE (IF approved THEN <<>> ELSE <<AuditEntry("tool_denied", c.name, "denied")>>)
       \o (IF isSensitiveFile /\ c.input.hasPath
             THEN <<AuditEntry("sensitive_file_access", c.name,
                               IF approved THEN "success" ELSE "denied")>>
             ELSE <<>>)

AuditAtResult(a, c, isError) ==
  IF a = "anthropic" THEN <<>>
  ELSE <<AuditEntry("tool_approved", c.name, IF isError THEN "error" ELSE "success")>>

\* The entries pushed to toolResults, in each provider's wire format.  An
\* OpenAI tool message has no error field.
ExecutedResult(a, id, r) ==
  IF a = "anthropic"
    THEN [type |-> "tool_result", tool_use_id |-> id, content |-> r.output, is_error |-> r.isError]
    ELSE [role |-> "tool", tool_call_id |-> id, content |-> r.output]

DenialText(c) ==
  IF c.name = "write_file" THEN "User denied this file write." ELSE "User denied this file read."

\* The denial entry without the error mark in either wire format.
DeniedResultUnmarked(a, id, c) == [role |-> "tool", tool_call_id |-> id, content |-> DenialText(c)]

DeniedResult(a, id, c) ==
  IF a = "anthropic"
    THEN [type |-> "tool_result", tool_use_id |-> id,
          content |-> "User denied this file write.", is_error |-> TRUE]
    ELSE [role |-> "tool", tool_call_id |-> id, content |-> DenialText(c)]

\* The entry for a disabled tool without the identifier of its call.
DisabledResultAnonymous(id, c) ==
  [role |-> "tool", tool_call_id |-> 0, content |-> "Tool is disabled by user configuration."]

DisabledResult(id, c) ==
  [role |-> "tool", tool_call_id |-> id, content |-> "Tool is disabled by user configuration."]

\* The mutation of C38: both adapters pass skipApprovalCheck = true.
SkipApprovalCheckAlways(a) == TRUE

\* executeTool(name, input): the Anthropic adapter leaves skipApprovalCheck at
\* its default, the Groq adapter passes true.
SkipApprovalCheck(a) == a = "groq"

\* The identifier the provider gave to the call.
CallId(r, i) == r * (MaxCalls + 1) + i

\* The call a tool result names: tool_use_id in a tool_result block,
\* tool_call_id in a tool message.
ResultId(r) == IF "tool_use_id" \in DOMAIN r THEN r.tool_use_id ELSE r.tool_call_id

NoSandboxResult == SandboxResult(FALSE, FALSE, "(not called)")

\* providers.ts: the model registry and getModelConfig.  Prices are in tenths
\* of a dollar per million tokens.
ModelConfig(known, input, output) == [known |-> known, input |-> input, output |-> output]

getModelConfig(nameOrId) ==
  CASE nameOrId \in {"haiku", "claude-haiku-4-5-20251001"} -> ModelConfig(TRUE, 8, 40)
    [] nameOrId \in {"sonnet", "claude-sonnet-4-5-20250929"} -> ModelConfig(TRUE, 30, 150)
    [] nameOrId \in {"llama-3.3", "llama-3.3-70b-versatile", "gpt-oss", "openai/gpt-oss-120b",
                     "llama-3.1", "llama-3.1-70b-versatile", "mixtral", "mixtral-8x7b-32768"} ->
         ModelConfig(TRUE, 0, 0)
    [] OTHER -> ModelConfig(FALSE, 0, 0)

\* The model ids of the sample turns; the last of each adapter has no
\* entry in the registry.
ModelIds(a) ==
  IF a = "anthropic"
    THEN {"claude-haiku-4-5-20251001", "claude-sonnet-4-5-20250929", "claude-opus-4-1"}
    ELSE {"llama-3.3-70b-versatile", "llama-4-scout"}

DefaultModel(a) == IF a = "anthropic" THEN "claude-haiku-4-5-20251001" ELSE "llama-3.3-70b-versatile"

\* The tail of the adapters' streamChat: pricing = modelConfig?.pricing ??
\* { input: 0, output: 0 } and the cost, in 1e-7 dollars.  No event is
\* yielded there.
AdapterCostTail(m, inputTokens, outputTokens) ==
  LET pricing == getModelConfig(m) IN
  [warning |-> FALSE, totalCost |-> inputTokens * pricing.input + outputTokens * pricing.output]

\* The tail of streamChat in claude.ts: a warning for a model without entry
\* in PRICING, and the prices of DEFAULT_MODEL in its place.
ClaudeCostTail(m, inputTokens, outputTokens) ==
  LET known == m \in {"claude-haiku-4-5-20251001", "claude-sonnet-4-5-20250929"}
      pricing == IF known THEN getModelConfig(m) ELSE getModelConfig("claude-haiku-4-5-20251001")
  IN
  [warning |-> ~known, totalCost |-> inputTokens * pricing.input + outputTokens * pricing.output]

\* The error with which a provider request made under an aborted signal
\* is rejected: an Error without status.
AbortError == Thrown(TRUE, TRUE, FALSE, FALSE, 0, "", "")

\* The options the Groq adapter passes to retryWithBackoff.
GroqRetryOptions ==
  RetryOptions(2, 1000, DefaultRetryOptions.maxDelay, DefaultRetryOptions.backoffMultiplier)

\* The wait of the warning taken from every retryAfter that was parsed, a
\* zero included.
WaitTimeOfAnyNumber(info) ==
  IF info.hasRetryAfter
    THEN "Wait " \o ToString(info.retryAfter) \o " seconds"
    ELSE "Try again later"

\* The message of the rate-limit warning.
WaitTime(info) ==
  IF info.hasRetryAfter /\ info.retryAfter # 0
    THEN "Wait " \o ToString(info.retryAfter) \o " seconds"
    ELSE "Try again later"

RateLimitWarning(info) == "Rate limit exceeded. " \o WaitTime(info) \o ". " \o info.message

\* runStreamChat: localSegments, as whether it holds text, how many tool
\* segments have no output yet, and whether one has an output.
Segments(text, open, done) == [text |-> text, open |-> open, done |-> done]

\* The usage field of the value an adapter's generator returns, and the
\* session totals of App.
TurnUsage(inputTokens, outputTokens, cost) ==
  [inputTokens |-> inputTokens, outputTokens |-> outputTokens, totalCost |-> cost]

NoUsage == TurnUsage(0, 0, 0)

\* The mutation of C36: the session totals are updated in the finally block.
SessionUsageAlways(prev, returned, usage) ==
  TurnUsage(prev.inputTokens + usage.inputTokens, prev.outputTokens + usage.outputTokens,
            prev.totalCost + usage.totalCost)

\* runStreamChat: setTotalUsage follows the while loop inside the try block,
\* so it is reached only when generator.next() reported done.
SessionUsage(prev, returned, usage) ==
  IF returned
    THEN TurnUsage(prev.inputTokens + usage.inputTokens, prev.outputTokens + usage.outputTokens,
                   prev.totalCost + usage.totalCost)
    ELSE prev

\* config.ts addLifetimeSpend, called after setTotalUsage: the field is
\* rewritten when config.json can be saved, and a failure is swallowed.
addLifetimeSpend(prev, returned, writable, cost) ==
  IF returned /\ writable THEN prev + cost ELSE prev

\* streamChat and runStreamChat are entered.
TurnStart(m) ==
  /\ aborted = FALSE
  /\ thrown = NoError
  /\ model = m
  /\ totalInputTokens = 0
  /\ totalOutputTokens = 0
  /\ reportedInput = 0
  /\ reportedOutput = 0
  /\ totalCost = 0
  /\ rateWarnings = 0
  /\ fullResponse = FALSE
  /\ localSegments = Segments(FALSE, 0, FALSE)
  /\ turnResult = "pending"
  /\ uiError = FALSE
  /\ totalUsage = NoUsage
  /\ lifetimeSpend = 0
  /\ auditLog = <<>>
  /\ apiMessages = <<>>

\* The response the provider stub sends next.
DrawResponse ==
  \E n \in 0..MaxCalls, stop \in StopReasons(adapter), text \in BOOLEAN,
     c \in Repertoire(provider) \cup {NoCall}, u \in UsageReports(adapter, provider) :
    /\ (n = 0) = (c = NoCall)
    /\ n > 0 => budget > 0
    /\ resp' = [nCalls |-> n, stopReason |-> stop, text |-> text, call |-> c, usage |-> u]
    /\ budget' = IF n > 0 THEN budget - 1 ELSE budget

\* yield e: the event is handed to the caller and the generator is suspended.
Yield(e) == yielded' = TRUE /\ event' = e

NoYield == UNCHANGED <<yielded, event>>

\* The mutation of C34: a tool_done event leaves the open tool segment as
\* it is.
SegmentsAfterUnclosed(segs, e) ==
  CASE e.type = "text_delta" -> [segs EXCEPT !.text = TRUE]
    [] e.type = "tool_start" -> [segs EXCEPT !.open = @ + 1]
    [] OTHER -> segs

\* runStreamChat's list of segments after an event: a text_delta extends or
\* opens a text segment, a tool_start pushes a tool segment without output,
\* a tool_done gives its output to the last tool segment that has none.
SegmentsAfter(segs, e) ==
  CASE e.type = "text_delta" -> [segs EXCEPT !.text = TRUE]
    [] e.type = "tool_start" -> [segs EXCEPT !.open = @ + 1]
    [] e.type = "tool_done" /\ segs.open > 0 -> [segs EXCEPT !.open = @ - 1, !.done = TRUE]
    [] OTHER -> segs

\* The caller has handled the event it was given (runStreamChat collects
\* text and tool segments) and asks the generator for the next one.
CallerNext ==
  /\ yielded
  /\ yielded' = FALSE
  /\ event' = NoEvent
  /\ fullResponse' = (fullResponse \/ event.type = "text_delta")
  /\ localSegments' = SegmentsAfter(localSegments, event)
  /\ UNCHANGED <<fsVars, sbVars, adapter, provider, budget, round, pc, resp, idx, call, approval,
                 toolResults, result, warnings, requests, toolRounds, callLog>>
  /\ UNCHANGED <<retryVars, aborted, thrown, model, tokenVars, totalCost, rateWarnings,
                 turnResult, uiError, totalUsage, lifetimeSpend>>
  /\ UNCHANGED histVars

\* The mutation of C37: the approval takes the value of the latest call.
ResolveApprovalLastWins(a, approved) == IF approved THEN "approved" ELSE "denied"

\* resolveApproval(approved): the promise is settled by the first call of
\* its resolver; a call on a settled promise changes nothing.
ResolveApproval(a, approved) ==
  IF a = "pending" THEN (IF approved THEN "approved" ELSE "denied") ELSE a

\* The caller invokes the approve() callback of the tool_approve event it
\* holds, while the generator is at its await (a later call finds the
\* promise settled and the await left, and changes nothing).
Approve ==
  /\ pc = "await"
  /\ approval \in {"pending", "approved", "denied"}
  /\ approval' = ResolveApproval(approval, TRUE)
  /\ UNCHANGED <<fsVars, sbVars, adapter, provider, budget, round, pc, yielded, event, resp, idx,
                 call, toolResults, result, warnings, requests, toolRounds, callLog>>
  /\ UNCHANGED retryVars
  /\ UNCHANGED turnVars

\* The caller invokes the deny() callback of the tool_approve event it
\* holds.
Deny ==
  /\ pc = "await"
  /\ approval \in {"pending", "approved", "denied"}
  /\ approval' = ResolveApproval(approval, FALSE)
  /\ UNCHANGED <<fsVars, sbVars, adapter, provider, budget, round, pc, yielded, event, resp, idx,
                 call, toolResults, result, warnings, requests, toolRounds, callLog>>
  /\ UNCHANGED retryVars
  /\ UNCHANGED turnVars

\* The Anthropic adapter at the top of the for loop with the condition
\* true: the request is sent once; it opens the stream of a response or
\* is rejected.
Request ==
  /\ pc = "loop" /\ ~yielded
  /\ LoopCondition(round)
  /\ adapter = "anthropic"
  /\ invocations' = 1
  /\ IF aborted
       THEN /\ thrown' = [AbortError EXCEPT !.id = 1]
            /\ pc' = "threw"
            /\ UNCHANGED <<resp, budget, requests, apiMessages>>
       ELSE \/ /\ DrawResponse
               /\ requests' = requests + 1
               /\ apiMessages' = <<>>
               /\ pc' = "stream"
               /\ UNCHANGED thrown
            \/ /\ Faulty(provider)
               /\ \E e \in SampleErrors : thrown' = [e EXCEPT !.id = 1]
               /\ pc' = "threw"
               /\ UNCHANGED <<resp, budget, requests, apiMessages>>
  /\ NoYield
  /\ UNCHANGED <<fsVars, sbVars, adapter, provider, round, idx, call, approval, toolResults,
                 result, warnings, toolRounds, callLog>>
  /\ UNCHANGED <<rtState, rtOptions, attempt, lastError, delays>>
  /\ UNCHANGED <<aborted, model, tokenVars, totalCost, rateWarnings, callerVars>>
  /\ UNCHANGED <<auditLog, auditWritable, apiKeys>>

\* The Groq adapter at the top of the for loop with the condition true:
\* retryWithBackoff is called with the provider request as its operation.
GroqRequest ==
  /\ pc = "loop" /\ ~yielded
  /\ LoopCondition(round)
  /\ adapter = "groq"
  /\ RetryStart(GroqRetryOptions)
  /\ pc' = "request"
  /\ NoYield
  /\ UNCHANGED <<fsVars, sbVars, adapter, provider, budget, round, resp, idx, call, approval,
                 toolResults, result, warnings, requests, toolRounds, callLog>>
  /\ UNCHANGED turnVars

\* The provider request succeeds: retryWithBackoff returns the stream.
GroqRequestSucceeds ==
  /\ pc = "request" /\ ~yielded
  /\ rtState = "running" /\ RetryLoopCondition(rtOptions, attempt)
  /\ ~aborted
  /\ RetryAttempt(FALSE, NoError)
  /\ DrawResponse
  /\ requests' = requests + 1
  /\ pc' = "stream"
  /\ NoYield
  /\ UNCHANGED <<fsVars, sbVars, adapter, provider, round, idx, call, approval, toolResults,
                 result, warnings, toolRounds, callLog>>
  /\ apiMessages' = <<>>
  /\ UNCHANGED <<aborted, thrown, model, tokenVars, totalCost, rateWarnings, callerVars>>
  /\ UNCHANGED <<auditLog, auditWritable, apiKeys>>

\* The provider request fails: retryWithBackoff throws the error or waits.
GroqRequestFails ==
  /\ pc = "request" /\ ~yielded
  /\ Faulty(provider)
  /\ \E e \in (IF aborted THEN {AbortError} ELSE SampleErrors) : RetryAttempt(TRUE, e)
  /\ NoYield
  /\ UNCHANGED <<fsVars, sbVars, loopVars, turnVars>>

\* The wait of retryWithBackoff is over.
GroqRetryTimer ==
  /\ pc = "request" /\ ~yielded
  /\ RetryTimer
  /\ NoYield
  /\ UNCHANGED <<fsVars, sbVars, loopVars, turnVars>>

\* catch (error): the rate-limit warning if checkRateLimit says so, then
\* throw error.
GroqCatch ==
  /\ pc = "request" /\ ~yielded
  /\ rtState = "thrown"
  /\ LET rateLimitInfo == checkRateLimit(lastError) IN
     IF rateLimitInfo.isRateLimited
       THEN /\ Yield(StreamEvent("warning", "(none)", RateLimitWarning(rateLimitInfo), FALSE))
            /\ rateWarnings' = rateWarnings + 1
            /\ pc' = "rethrow"
            /\ UNCHANGED thrown
       ELSE /\ NoYield
            /\ thrown' = lastError
            /\ pc' = "threw"
            /\ UNCHANGED rateWarnings
  /\ UNCHANGED <<fsVars, sbVars, adapter, provider, budget, round, resp, idx, call, approval,
                 toolResults, result, warnings, requests, toolRounds, callLog>>
  /\ UNCHANGED <<retryVars, aborted, model, tokenVars, totalCost, callerVars>>
  /\ UNCHANGED histVars

\* throw error, after the warning was handed over.
GroqRethrow ==
  /\ pc = "rethrow" /\ ~yielded
  /\ thrown' = lastError
  /\ pc' = "threw"
  /\ NoYield
  /\ UNCHANGED <<fsVars, sbVars, adapter, provider, budget, round, resp, idx, call, approval,
                 toolResults, result, warnings, requests, toolRounds, callLog>>
  /\ UNCHANGED <<retryVars, aborted, model, tokenVars, totalCost, rateWarnings, callerVars>>
  /\ UNCHANGED histVars

\* Top of the for loop with the condition false.
LoopExit ==
  /\ pc = "loop" /\ ~yielded
  /\ ~LoopCondition(round)
  /\ pc' = "after"
  /\ NoYield
  /\ UNCHANGED <<fsVars, sbVars, adapter, provider, budget, round, resp, idx, call, approval,
                 toolResults, result, warnings, requests, toolRounds, callLog>>
  /\ UNCHANGED retryVars
  /\ UNCHANGED turnVars

\* The stream of the response is consumed: its text is yielded as text_delta,
\* its tool calls are collected.
ConsumeStream ==
  /\ pc = "stream" /\ ~yielded
  /\ ~aborted
  /\ IF resp.text THEN Yield(StreamEvent("text_delta", "(none)", "", FALSE)) ELSE NoYield
  /\ LET counted == adapter = "anthropic" \/ resp.usage.withChoice IN
     /\ totalInputTokens' = totalInputTokens + (IF counted THEN resp.usage.input ELSE 0)
     /\ totalOutputTokens' = totalOutputTokens + (IF counted THEN resp.usage.output ELSE 0)
  /\ reportedInput' = reportedInput + resp.usage.input
  /\ reportedOutput' = reportedOutput + resp.usage.output
  /\ idx' = 1
  /\ toolResults' = <<>>
  /\ toolRounds' = IF resp.nCalls > 0 THEN toolRounds + 1 ELSE toolRounds
  /\ pc' = IF resp.nCalls > 0 THEN "calls" ELSE "endround"
  /\ UNCHANGED <<fsVars, sbVars, adapter, provider, budget, round, resp, call, approval, result,
                 warnings, requests, callLog>>
  /\ UNCHANGED <<retryVars, aborted, thrown, model, totalCost, rateWarnings, callerVars>>
  /\ UNCHANGED histVars

\* The stream is consumed under a raised abort signal: part of the text may
\* have been handed over; the iteration is then cut, and either throws the
\* abort error or ends without one, with the tool calls received so far and
\* no stop reason.  Of the usage only the input count of Anthropic's
\* message_start has arrived.
ConsumeAbortedStream ==
  /\ pc = "stream" /\ ~yielded
  /\ aborted
  /\ \E partial \in {FALSE, resp.text}, throws \in BOOLEAN, n \in {0, resp.nCalls} :
       /\ throws => n = 0
       /\ IF partial THEN Yield(StreamEvent("text_delta", "(none)", "", FALSE)) ELSE NoYield
       /\ IF throws
            THEN /\ thrown' = AbortError
                 /\ pc' = "threw"
                 /\ UNCHANGED <<resp, idx, toolResults, toolRounds>>
            ELSE /\ resp' = [resp EXCEPT !.stopReason = "(none)", !.nCalls = n, !.text = partial,
                                         !.call = IF n = 0 THEN NoCall ELSE @]
                 /\ idx' = 1
                 /\ toolResults' = <<>>
                 /\ toolRounds' = IF n > 0 THEN toolRounds + 1 ELSE toolRounds
                 /\ pc' = IF n > 0 THEN "calls" ELSE "endround"
                 /\ UNCHANGED thrown
  /\ LET counted == IF adapter = "anthropic" THEN resp.usage.input ELSE 0 IN
     /\ totalInputTokens' = totalInputTokens + counted
     /\ reportedInput' = reportedInput + counted
  /\ UNCHANGED <<totalOutputTokens, reportedOutput>>
  /\ UNCHANGED <<fsVars, sbVars, adapter, provider, budget, round, call, approval, result,
                 warnings, requests, callLog>>
  /\ UNCHANGED <<retryVars, aborted, model, totalCost, rateWarnings, callerVars>>
  /\ UNCHANGED histVars

\* The next tool call of the response: permission, approval decision (with
\* the Groq adapter's probe of read_file), and the first event for the call.
BeginToolCall ==
  /\ pc = "calls" /\ ~yielded
  /\ LET c == [resp.call EXCEPT !.input = ParseToolInput(@)]
         gate == Gate(adapter, c)
         probed == IF gate.probe THEN executeTool(c.name, c.input, FALSE).ops ELSE {}
         logged == LogAll(auditLog, auditWritable, AuditAtCall(adapter, c))
     IN
     /\ call' = c
     /\ callLog' = [execs |-> 0, probes |-> IF gate.probe THEN 1 ELSE 0, ops |-> probed,
                    asked |-> gate.needsApproval, isSensitiveFile |-> gate.isSensitiveFile]
     /\ result' = NoToolResult
     /\ auditLog' = logged.log
     /\ IF logged.threw
          THEN /\ pc' = "threw"
               /\ approval' = "none"
               /\ NoYield
               /\ UNCHANGED toolResults
          ELSE IF gate.disabled
          THEN /\ toolResults' = Append(toolResults, DisabledResult(CallId(round, idx), c))
               /\ Yield(StreamEvent("tool_done", c.name, "Disabled by configuration", TRUE))
               /\ approval' = "none"
               /\ pc' = "next"
          ELSE IF gate.needsApproval
            THEN /\ Yield(StreamEvent("tool_approve", c.name, "", FALSE))
                 /\ approval' = "pending"
                 /\ pc' = "await"
                 /\ UNCHANGED toolResults
            ELSE /\ Yield(StreamEvent("tool_start", c.name, "", FALSE))
                 /\ approval' = "none"
                 /\ pc' = "exec"
                 /\ UNCHANGED toolResults
  /\ UNCHANGED <<fsVars, sbVars, adapter, provider, budget, round, resp, idx, warnings, requests,
                 toolRounds>>
  /\ UNCHANGED retryVars
  /\ UNCHANGED <<aborted, thrown, model, tokenVars, totalCost, rateWarnings, callerVars>>
  /\ UNCHANGED <<auditWritable, apiKeys, apiMessages>>

\* const approved = await approvalPromise, and the branch on its value.
AfterApproval ==
  /\ pc = "await" /\ ~yielded
  /\ ApprovalSettled(approval)
  /\ LET logged == LogAll(auditLog, auditWritable,
                          AuditAtApproval(adapter, call, callLog.isSensitiveFile,
                                          approval = "approved"))
     IN
     /\ auditLog' = logged.log
     /\ IF logged.threw
          THEN /\ pc' = "threw"
               /\ NoYield
               /\ UNCHANGED toolResults
          ELSE IF approval = "denied"
          THEN /\ toolResults' = Append(toolResults, DeniedResult(adapter, CallId(round, idx), call))
               /\ Yield(StreamEvent("tool_done", call.name, "Denied by user", TRUE))
               /\ pc' = "next"
          ELSE /\ Yield(StreamEvent("tool_start", call.name, "", FALSE))
               /\ pc' = "exec"
               /\ UNCHANGED toolResults
  /\ UNCHANGED <<fsVars, sbVars, adapter, provider, budget, round, resp, idx, call, approval,
                 result, warnings, requests, toolRounds, callLog>>
  /\ UNCHANGED retryVars
  /\ UNCHANGED <<aborted, thrown, model, tokenVars, totalCost, rateWarnings, callerVars>>
  /\ UNCHANGED <<auditWritable, apiKeys, apiMessages>>

\* const result = await executeTool(...), then the tool_done event.
ExecuteTool ==
  /\ pc = "exec" /\ ~yielded
  /\ LET r == executeTool(call.name, call.input, SkipApprovalCheck(adapter))
         logged == LogAll(auditLog, auditWritable, AuditAtResult(adapter, call, result'.isError))
     IN
     /\ result' = [output |-> r.output, isError |-> r.isError]
     /\ files' = files \cup r.files
     /\ dirs' = dirs \cup r.dirs
     /\ callLog' = [callLog EXCEPT !.execs = @ + 1, !.ops = @ \cup r.ops]
     /\ auditLog' = logged.log
     /\ IF logged.threw
          THEN pc' = "threw" /\ NoYield
          ELSE /\ Yield(StreamEvent("tool_done", call.name, r.output, r.isError))
               /\ pc' = "push"
  /\ UNCHANGED <<sbVars, adapter, provider, budget, round, resp, idx, call, approval,
                 toolResults, warnings, requests, toolRounds>>
  /\ UNCHANGED retryVars
  /\ UNCHANGED <<aborted, thrown, model, tokenVars, totalCost, rateWarnings, callerVars>>
  /\ UNCHANGED <<auditWritable, apiKeys, apiMessages>>

\* toolResults.push(...) after an executed call, and on to the next call.
PushResult ==
  /\ pc = "push" /\ ~yielded
  /\ toolResults' = Append(toolResults, ExecutedResult(adapter, CallId(round, idx), result))
  /\ idx' = idx + 1
  /\ pc' = IF idx < resp.nCalls THEN "calls" ELSE "endround"
  /\ NoYield
  /\ UNCHANGED <<fsVars, sbVars, adapter, provider, budget, round, resp, call, approval, result,
                 warnings, requests, toolRounds, callLog>>
  /\ UNCHANGED retryVars
  /\ UNCHANGED turnVars

\* continue: on to the next call after a disabled or denied one.
NextCall ==
  /\ pc = "next" /\ ~yielded
  /\ idx' = idx + 1
  /\ pc' = IF idx < resp.nCalls THEN "calls" ELSE "endround"
  /\ NoYield
  /\ UNCHANGED <<fsVars, sbVars, adapter, provider, budget, round, resp, call, approval,
                 toolResults, result, warnings, requests, toolRounds, callLog>>
  /\ UNCHANGED retryVars
  /\ UNCHANGED turnVars

\* End of the loop body: break, or the warning of the last round and round++.
\* The locals of the loop body go out of scope.
EndRound ==
  /\ pc = "endround" /\ ~yielded
  /\ IF BreakAfterRound(adapter, resp, toolResults)
       THEN /\ pc' = "after"
            /\ NoYield
            /\ UNCHANGED <<round, warnings>>
       ELSE /\ pc' = "loop"
            /\ round' = round + 1
            /\ IF IsLastRound(round)
                 THEN /\ Yield(StreamEvent("warning", "(none)",
                                           "Reached maximum tool call rounds", FALSE))
                      /\ warnings' = warnings + 1
                 ELSE /\ NoYield
                      /\ UNCHANGED warnings
  /\ toolResults' = <<>>
  /\ call' = NoCall
  /\ callLog' = NoLog
  /\ approval' = "none"
  /\ result' = NoToolResult
  /\ UNCHANGED <<fsVars, sbVars, adapter, provider, budget, resp, idx, requests, toolRounds>>
  /\ UNCHANGED retryVars
  /\ apiMessages' =
       IF (adapter = "groq" /\ resp.nCalls > 0) \/ ~BreakAfterRound(adapter, resp, toolResults)
         THEN <<HistoryEntry(AssistantText(adapter, resp), resp.nCalls, toolResults)>>
         ELSE apiMessages
  /\ auditLog' = <<>>
  /\ UNCHANGED <<aborted, thrown, model, tokenVars, totalCost, rateWarnings, callerVars>>
  /\ UNCHANGED <<auditWritable, apiKeys>>

\* return { text, usage }.
Return ==
  /\ pc = "after" /\ ~yielded
  /\ pc' = "returned"
  /\ totalCost' = AdapterCostTail(model, totalInputTokens, totalOutputTokens).totalCost
  /\ NoYield
  /\ UNCHANGED <<fsVars, sbVars, adapter, provider, budget, round, resp, idx, call, approval,
                 toolResults, result, warnings, requests, toolRounds, callLog>>
  /\ UNCHANGED <<retryVars, aborted, thrown, model, tokenVars, rateWarnings, callerVars>>
  /\ UNCHANGED histVars

\* The points at which the generator waits for something outside the
\* process: the provider's response or the next chunk of its stream, the
\* timer of a retry, the caller's decision on an approval.  The tool
\* executor is synchronous, and an event is handed to the caller and the
\* generator resumed without the event loop taking a turn.
Suspended == pc \in {"loop", "request", "rethrow", "stream", "await"}

\* The user cancels the turn: the key handler calls abortController.abort()
\* when the event loop takes a turn while the generator is suspended.
Abort ==
  /\ ~aborted
  /\ Faulty(provider)
  /\ Suspended
  /\ aborted' = TRUE
  /\ UNCHANGED <<fsVars, sbVars, loopVars, retryVars>>
  /\ UNCHANGED <<thrown, model, tokenVars, totalCost, rateWarnings, callerVars>>
  /\ UNCHANGED histVars

\* The catch block of runStreamChat with every error reported, the signal
\* never consulted.
CatchResultSignalUnchecked(isAborted, hasText) ==
  [result |-> IF hasText THEN "value" ELSE "null", error |-> TRUE]

\* The catch block of runStreamChat: under an aborted signal the error is
\* dropped, otherwise it is displayed; in both cases the text and segments
\* are returned if fullResponse is not empty, and null otherwise.
CatchResult(isAborted, hasText) ==
  [result |-> IF hasText THEN "value" ELSE "null", error |-> ~isAborted]

\* runStreamChat after the generator is done: the result of the try block
\* if it returned, of the catch block if it threw.
CallerFinish ==
  /\ ~yielded
  /\ turnResult = "pending"
  /\ pc \in {"returned", "threw"}
  /\ IF pc = "returned"
       THEN turnResult' = "value" /\ UNCHANGED uiError
       ELSE /\ turnResult' = CatchResult(aborted, fullResponse).result
            /\ uiError' = CatchResult(aborted, fullResponse).error
  /\ totalUsage' = SessionUsage(totalUsage, pc = "returned",
                                TurnUsage(totalInputTokens, totalOutputTokens, totalCost))
  /\ lifetimeSpend' = addLifetimeSpend(lifetimeSpend, pc = "returned", auditWritable, totalCost)
  /\ UNCHANGED <<fsVars, sbVars, loopVars, retryVars>>
  /\ UNCHANGED <<aborted, thrown, model, tokenVars, totalCost, rateWarnings, fullResponse,
                 localSegments>>
  /\ UNCHANGED histVars

Init ==
  /\ dirs = {}
  /\ files = {}
  /\ sbInput = DotPath
  /\ sbResult = NoSandboxResult
  /\ ToolsIdle
  /\ adapter \in Adapters
  /\ provider \in Stubs
  /\ budget = ToolResponses(provider)
  /\ round = 0
  /\ pc = "loop"
  /\ yielded = FALSE
  /\ event = NoEvent
  /\ resp = NoResponse
  /\ idx = 0
  /\ call = NoCall
  /\ approval = "none"
  /\ toolResults = <<>>
  /\ result = NoToolResult
  /\ warnings = 0
  /\ requests = 0
  /\ toolRounds = 0
  /\ callLog = NoLog
  /\ RetryIdle
  /\ \E m \in (IF provider = "metered" THEN ModelIds(adapter) ELSE {DefaultModel(adapter)}) :
       TurnStart(m)
  /\ auditWritable \in (IF AuditFaulty(adapter, provider) THEN BOOLEAN ELSE {TRUE})
  /\ apiKeys = Adapters

Next ==
  \/ CallerNext
  \/ Approve
  \/ Deny
  \/ Request
  \/ GroqRequest
  \/ GroqRequestSucceeds
  \/ GroqRequestFails
  \/ GroqRetryTimer
  \/ GroqCatch
  \/ GroqRethrow
  \/ LoopExit
  \/ ConsumeStream
  \/ ConsumeAbortedStream
  \/ BeginToolCall
  \/ AfterApproval
  \/ ExecuteTool
  \/ PushResult
  \/ NextCall
  \/ EndRound
  \/ Return
  \/ Abort
  \/ CallerFinish

Spec == Init /\ [][Next]_vars

(***************************************************************************)
(* The turn with runStreamChat as the caller of the generator: it settles  *)
(* the approvals itself, in the branch of its loop for tool_approve.       *)
(***************************************************************************)
\* typeof event.tool.input.content === "string": only a write_file call
\* of the samples carries a content.
HasContent(c) == c.name = "write_file" /\ c.input.hasArg

\* One pass of the while loop of runStreamChat: the branch for the event,
\* then generator.next().  For tool_approve the branch reads
\* content.length before it calls event.approve(): without a content it
\* throws, the catch block ends the turn, and the generator is left at its
\* yield.
UiCallerNext ==
  /\ yielded
  /\ turnResult = "pending"
  /\ IF event.type = "tool_approve" /\ ~HasContent(call)
       THEN /\ turnResult' = CatchResult(aborted, fullResponse).result
            /\ uiError' = CatchResult(aborted, fullResponse).error
            /\ UNCHANGED <<yielded, event, approval, fullResponse, localSegments>>
       ELSE /\ yielded' = FALSE
            /\ event' = NoEvent
            /\ approval' = IF event.type = "tool_approve" THEN "approved" ELSE approval
            /\ fullResponse' = (fullResponse \/ event.type = "text_delta")
            /\ localSegments' = SegmentsAfter(localSegments, event)
            /\ UNCHANGED <<turnResult, uiError>>
  /\ UNCHANGED <<fsVars, sbVars, adapter, provider, budget, round, pc, resp, idx, call,
                 toolResults, result, warnings, requests, toolRounds, callLog>>
  /\ UNCHANGED <<retryVars, aborted, thrown, model, tokenVars, totalCost, rateWarnings,
                 totalUsage, lifetimeSpend>>
  /\ UNCHANGED histVars

UiNext ==
  \/ UiCallerNext
  \/ Request
  \/ GroqRequest
  \/ GroqRequestSucceeds
  \/ GroqRequestFails
  \/ GroqRetryTimer
  \/ GroqCatch
  \/ GroqRethrow
  \/ LoopExit
  \/ ConsumeStream
  \/ ConsumeAbortedStream
  \/ BeginToolCall
  \/ AfterApproval
  \/ ExecuteTool
  \/ PushResult
  \/ NextCall
  \/ EndRound
  \/ Return
  \/ Abort
  \/ CallerFinish

UiSpec == Init /\ [][UiNext]_vars

(***************************************************************************)
(* The sandbox on its own: validatePath applied to one path string.        *)
(***************************************************************************)
\* Longest input path, in segments.
MaxSegs == 2

SegVocabulary ==
  {SegDotDot, SegSrc, SegOut, SegATs, SegEnv, SegMyKey, SegIdRsa, SegNodeModules, SegGit,
   SegConfig, SegTokenTxt, SegEtc, SegNewTxt}

SegSeqs(n) == UNION {[1..k -> SegVocabulary] : k \in 0..n}

\* Relative paths, absolute paths from the root, and absolute paths that
\* start with the working directory.
SandboxInputs ==
  {FilePath(s) : s \in SegSeqs(MaxSegs)}
    \cup {AbsPath(s) : s \in SegSeqs(MaxSegs)}
    \cup {AbsPath(CWD \o s) : s \in SegSeqs(MaxSegs)}

SbInit ==
  /\ dirs = {}
  /\ files = {}
  /\ sbInput \in SandboxInputs
  /\ sbResult = NoSandboxResult
  /\ ToolsIdle
  /\ adapter = "anthropic"
  /\ provider = "varied"
  /\ budget = 0
  /\ round = 0
  /\ pc = "idle"
  /\ yielded = FALSE
  /\ event = NoEvent
  /\ resp = NoResponse
  /\ idx = 0
  /\ call = NoCall
  /\ approval = "none"
  /\ toolResults = <<>>
  /\ result = NoToolResult
  /\ warnings = 0
  /\ requests = 0
  /\ toolRounds = 0
  /\ callLog = NoLog
  /\ RetryIdle
  /\ TurnStart(DefaultModel(adapter))
  /\ auditWritable = TRUE
  /\ apiKeys = Adapters

SbValidate ==
  /\ pc = "idle"
  /\ sbResult = NoSandboxResult
  /\ sbResult' = validatePath(sbInput)
  /\ UNCHANGED <<fsVars, sbInput, toolVars, loopVars>>
  /\ UNCHANGED retryVars
  /\ UNCHANGED turnVars

SandboxNext == SbValidate

SandboxSpec == SbInit /\ [][SandboxNext]_vars

(***************************************************************************)
(* retryWithBackoff on its own: one call with sampled options and an       *)
(* operation that fails or succeeds at each invocation.                    *)
(***************************************************************************)
\* Largest maxRetries sampled.
MaxRetriesSampled == 2

SampleRetryOptions ==
  {RetryOptions(m, i, d, b) :
     m \in -1..MaxRetriesSampled, i \in {1000, 4000}, d \in {3000, 30000}, b \in {1, 2, 3}}

RtInit ==
  /\ dirs = {}
  /\ files = {}
  /\ sbInput = DotPath
  /\ sbResult = NoSandboxResult
  /\ ToolsIdle
  /\ adapter = "groq"
  /\ provider = "varied"
  /\ budget = 0
  /\ round = 0
  /\ pc = "idle"
  /\ yielded = FALSE
  /\ event = NoEvent
  /\ resp = NoResponse
  /\ idx = 0
  /\ call = NoCall
  /\ approval = "none"
  /\ toolResults = <<>>
  /\ result = NoToolResult
  /\ warnings = 0
  /\ requests = 0
  /\ toolRounds = 0
  /\ callLog = NoLog
  /\ rtState = "running"
  /\ rtOptions \in SampleRetryOptions
  /\ attempt = 0
  /\ lastError = NoError
  /\ invocations = 0
  /\ delays = <<>>
  /\ TurnStart(DefaultModel(adapter))
  /\ auditWritable = TRUE
  /\ apiKeys = Adapters

\* return await fn(): the operation returns.
RtSucceed ==
  /\ pc = "idle"
  /\ RetryAttempt(FALSE, NoError)
  /\ UNCHANGED <<fsVars, sbVars, loopVars, turnVars>>

\* return await fn(): the operation throws.
RtFail ==
  /\ pc = "idle"
  /\ \E e \in SampleErrors : RetryAttempt(TRUE, e)
  /\ UNCHANGED <<fsVars, sbVars, loopVars, turnVars>>

RtTimer ==
  /\ pc = "idle"
  /\ RetryTimer
  /\ UNCHANGED <<fsVars, sbVars, loopVars, turnVars>>

RtLoopExit ==
  /\ pc = "idle"
  /\ RetryLoopExit
  /\ UNCHANGED <<fsVars, sbVars, loopVars, turnVars>>

RetryNext ==
  \/ RtSucceed
  \/ RtFail
  \/ RtTimer
  \/ RtLoopExit

RetrySpec == RtInit /\ [][RetryNext]_vars

(***************************************************************************)
(* searchFiles on its own: one scan of a directory tree.                    *)
(***************************************************************************)
\* The state all specifications of a single function start from, but for
\* the function's own variables.
PureInit ==
  /\ dirs = {}
  /\ files = {}
  /\ sbInput = DotPath
  /\ sbResult = NoSandboxResult
  /\ adapter = "anthropic"
  /\ provider = "varied"
  /\ budget = 0
  /\ round = 0
  /\ pc = "idle"
  /\ yielded = FALSE
  /\ event = NoEvent
  /\ resp = NoResponse
  /\ idx = 0
  /\ call = NoCall
  /\ approval = "none"
  /\ toolResults = <<>>
  /\ result = NoToolResult
  /\ warnings = 0
  /\ requests = 0
  /\ toolRounds = 0
  /\ callLog = NoLog
  /\ RetryIdle
  /\ TurnStart(DefaultModel(adapter))
  /\ auditWritable = TRUE
  /\ apiKeys = Adapters

PureUnchanged == UNCHANGED <<fsVars, sbInput, sbResult, loopVars, retryVars, turnVars>>

SrInit == PureInit /\ ToolsIdle

\* searchFiles: the path passed the sandbox, and searchRecursive is called
\* on it with depth 0 and no match.
SrStart ==
  /\ search.status = "idle"
  /\ search' = [search EXCEPT !.status = IF searchRecursive(0, 0) THEN "scanning" ELSE "done"]
  /\ UNCHANGED <<glob, fetch, blocks>>
  /\ PureUnchanged

\* The next entry is a file whose name matches: matches.push(relPath).
SrMatch ==
  /\ search.status = "scanning" /\ search.scanned < MaxEntries
  /\ search' = [search EXCEPT !.matches = @ + 1, !.scanned = @ + 1]
  /\ UNCHANGED <<glob, fetch, blocks>>
  /\ PureUnchanged

\* The next entry is passed over: node_modules, .git or dist, a path of
\* .claiignore, a path the sandbox denies, an entry statSync fails on, a
\* file whose name does not match.
SrSkip ==
  /\ search.status = "scanning" /\ search.scanned < MaxEntries
  /\ search' = [search EXCEPT !.scanned = @ + 1]
  /\ UNCHANGED <<glob, fetch, blocks>>
  /\ PureUnchanged

\* The next entry is a directory: the recursive call, which returns at once
\* or goes on to read that directory.
SrDescend ==
  /\ search.status = "scanning" /\ search.scanned < MaxEntries
  /\ search' = [search EXCEPT !.scanned = @ + 1,
                              !.depth = IF searchRecursive(search.depth + 1, search.matches)
                                          THEN @ + 1 ELSE @]
  /\ UNCHANGED <<glob, fetch, blocks>>
  /\ PureUnchanged

\* The directory has no more entries, or readdirSync threw: the call
\* returns to the loop of the parent directory, the outermost to searchFiles.
SrReturn ==
  /\ search.status = "scanning"
  /\ search' = IF search.depth = 0 THEN [search EXCEPT !.status = "done"]
                                   ELSE [search EXCEPT !.depth = @ - 1]
  /\ UNCHANGED <<glob, fetch, blocks>>
  /\ PureUnchanged

SearchNext ==
  \/ SrStart
  \/ SrMatch
  \/ SrSkip
  \/ SrDescend
  \/ SrReturn

SearchSpec == SrInit /\ [][SearchNext]_vars

(***************************************************************************)
(* The glob matchers on their own: one pattern and one name, handed to     *)
(* matchesPattern as the entry name or to shouldIgnoreFile as the path.    *)
(***************************************************************************)
GlobInit ==
  /\ PureInit
  /\ search = NoSearch
  /\ fetch = NoFetch
  /\ blocks = NoBlocks
  /\ \E pattern \in CharSeqs(PatternChars), name \in CharSeqs(NameChars) :
       glob = Glob(pattern, name, "none", FALSE)

\* matchesPattern(entry, pattern): entry is a name readdirSync returned.
GlobMatchesPattern ==
  /\ glob.fn = "none"
  /\ \A i \in 1..Len(glob.name) : glob.name[i] # "/"
  /\ glob' = [glob EXCEPT !.fn = "matchesPattern",
                          !.result = matchesPattern(glob.name, glob.pattern)]
  /\ UNCHANGED <<search, fetch, blocks>>
  /\ PureUnchanged

\* shouldIgnoreFile(relPath, [pattern]).
GlobShouldIgnoreFile ==
  /\ glob.fn = "none"
  /\ glob' = [glob EXCEPT !.fn = "shouldIgnoreFile",
                          !.result = shouldIgnoreFile(glob.name, <<glob.pattern>>)]
  /\ UNCHANGED <<search, fetch, blocks>>
  /\ PureUnchanged

GlobNext ==
  \/ GlobMatchesPattern
  \/ GlobShouldIgnoreFile

GlobSpec == GlobInit /\ [][GlobNext]_vars

(***************************************************************************)
(* webFetch on its own: one url.                                           *)
(***************************************************************************)
FetchSchemes == {"", "http", "https", "ftp", "file", "javascript"}

FetchHosts == PublicHosts \cup LocalhostNames \cup LoopbackHosts \cup PrivateHosts \cup LinkLocalHosts

FetchInit ==
  /\ PureInit
  /\ search = NoSearch
  /\ glob = NoGlob
  /\ blocks = NoBlocks
  /\ \E scheme \in FetchSchemes, host \in FetchHosts :
       fetch = Fetch(Url(scheme, host), "none", NoFetch.result)

\* webFetch(input.url), with curl returning the page or failing.
FetchUrl ==
  /\ fetch.status = "none"
  /\ \E curlOk \in BOOLEAN :
       LET r == webFetch(fetch.url, curlOk) IN
       fetch' = [fetch EXCEPT !.status = "done",
                              !.result = [output |-> r.output, isError |-> r.isError],
                              !.ops = r.ops]
  /\ UNCHANGED <<search, glob, blocks>>
  /\ PureUnchanged

FetchNext == FetchUrl

FetchSpec == FetchInit /\ [][FetchNext]_vars

(***************************************************************************)
(* The stream events of one response in the Anthropic adapter.  The        *)
(* provider opens the blocks in the order of their indices; the events of  *)
(* blocks that are open at the same time come in any order.                *)
(***************************************************************************)
\* case "content_block_start".
ContentBlockStart ==
  \E i \in BlockIndices, type \in {"tool_use", "text"} :
    /\ blocks.contentBlocks[i].phase = "unsent"
    /\ \A j \in BlockIndices : j < i => blocks.contentBlocks[j].phase # "unsent"
    /\ blocks' = [blocks EXCEPT
                    !.contentBlocks[i] = ContentBlock(type, FALSE, {}, "open"),
                    !.currentToolJson = IF type = "tool_use" THEN <<>> ELSE @]
    /\ UNCHANGED <<search, glob, fetch>>
    /\ PureUnchanged

\* case "content_block_delta" with an input_json_delta.
InputJsonDelta ==
  \E i \in BlockIndices, partial \in JsonFragments :
    /\ blocks.contentBlocks[i] = ContentBlock("tool_use", FALSE, {}, "open")
    /\ Len(blocks.sent[i]) < MaxFragments
    /\ blocks' = [blocks EXCEPT
                    !.currentToolJson = Append(@, partial),
                    !.sent[i] = Append(@, partial)]
    /\ UNCHANGED <<search, glob, fetch>>
    /\ PureUnchanged

\* case "content_block_delta" with a text_delta: the text block at the
\* index is extended.
TextDelta ==
  \E i \in BlockIndices :
    /\ blocks.contentBlocks[i] = ContentBlock("text", FALSE, {}, "open")
    /\ blocks' = [blocks EXCEPT !.contentBlocks[i].text = TRUE]
    /\ UNCHANGED <<search, glob, fetch>>
    /\ PureUnchanged

\* case "content_block_stop".
ContentBlockStop ==
  \E i \in BlockIndices :
    /\ blocks.contentBlocks[i].phase = "open"
    /\ blocks' = [blocks EXCEPT
                    !.contentBlocks[i] =
                      ContentBlock(@.type, @.text,
                                   IF @.type = "tool_use"
                                     THEN ParseToolJson(blocks.currentToolJson)
                                     ELSE @.input,
                                   "stopped")]
    /\ UNCHANGED <<search, glob, fetch>>
    /\ PureUnchanged

BlocksInit == PureInit /\ ToolsIdle

BlocksNext == ContentBlockStart \/ InputJsonDelta \/ TextDelta \/ ContentBlockStop

BlocksSpec == BlocksInit /\ [][BlocksNext]_vars

(***************************************************************************)
(* The facade: streamChat of the multi-provider interface, called with a   *)
(* short name or a model id, picks the provider and delegates to its       *)
(* streamChat.                                                             *)
(***************************************************************************)
\* providers.ts getProviderForModel: getModelConfig(nameOrId)?.provider.
getProviderForModel(nameOrId) ==
  CASE nameOrId \in {"haiku", "claude-haiku-4-5-20251001", "sonnet",
                     "claude-sonnet-4-5-20250929"} -> "anthropic"
    [] nameOrId \in {"llama-3.3", "llama-3.3-70b-versatile", "gpt-oss", "openai/gpt-oss-120b",
                     "llama-3.1", "llama-3.1-70b-versatile", "mixtral", "mixtral-8x7b-32768"} ->
         "groq"
    [] OTHER -> "undefined"

\* const modelId = config?.id ?? model.
ModelIdOf(nameOrId) ==
  CASE nameOrId \in {"haiku", "claude-haiku-4-5-20251001"} -> "claude-haiku-4-5-20251001"
    [] nameOrId \in {"sonnet", "claude-sonnet-4-5-20250929"} -> "claude-sonnet-4-5-20250929"
    [] nameOrId \in {"llama-3.3", "llama-3.3-70b-versatile"} -> "llama-3.3-70b-versatile"
    [] nameOrId \in {"gpt-oss", "openai/gpt-oss-120b"} -> "openai/gpt-oss-120b"
    [] nameOrId \in {"llama-3.1", "llama-3.1-70b-versatile"} -> "llama-3.1-70b-versatile"
    [] nameOrId \in {"mixtral", "mixtral-8x7b-32768"} -> "mixtral-8x7b-32768"
    [] OTHER -> nameOrId

\* A provider that takes its key for configured whatever the environment.
hasApiKeyAssumed(providerType, keys) == TRUE

\* hasApiKey: !!process.env.ANTHROPIC_API_KEY, !!process.env.GROQ_API_KEY.
hasApiKey(providerType, keys) == providerType \in keys

\* The arguments of the sample calls: a short name, a model id, a name the
\* registry does not hold, and an environment with at most one key.
FacadeModels == {"haiku", "llama-3.3-70b-versatile", "gpt-5"}

FacadeKeySets == {{}, {"anthropic"}, {"groq"}}

\* new Error("Unknown model: ..."), new Error("... is not set. ...").
FacadeError == Thrown(TRUE, TRUE, FALSE, FALSE, 0, "", "")

FacadeInit ==
  /\ dirs = {}
  /\ files = {}
  /\ sbInput = DotPath
  /\ sbResult = NoSandboxResult
  /\ ToolsIdle
  /\ adapter = "(none)"
  /\ provider \in Stubs
  /\ budget = ToolResponses(provider)
  /\ round = 0
  /\ pc = "facade"
  /\ yielded = FALSE
  /\ event = NoEvent
  /\ resp = NoResponse
  /\ idx = 0
  /\ call = NoCall
  /\ approval = "none"
  /\ toolResults = <<>>
  /\ result = NoToolResult
  /\ warnings = 0
  /\ requests = 0
  /\ toolRounds = 0
  /\ callLog = NoLog
  /\ RetryIdle
  /\ \E m \in FacadeModels : TurnStart(m)
  /\ auditWritable = TRUE
  /\ apiKeys \in FacadeKeySets

\* The first step of the facade's generator, up to the yield* that hands
\* over to the provider's streamChat.
FacadeStreamChat ==
  /\ pc = "facade"
  /\ LET modelId == ModelIdOf(model)
         providerType == getProviderForModel(modelId)
     IN
     IF providerType = "undefined" \/ ~hasApiKey(providerType, apiKeys)
       THEN /\ pc' = "threw"
            /\ thrown' = FacadeError
            /\ UNCHANGED <<adapter, model>>
       ELSE /\ pc' = "loop"
            /\ adapter' = providerType
            /\ model' = modelId
            /\ UNCHANGED thrown
  /\ UNCHANGED <<fsVars, sbVars, provider, budget, round, yielded, event, resp, idx, call,
                 approval, toolResults, result, warnings, requests, toolRounds, callLog>>
  /\ UNCHANGED <<retryVars, aborted, tokenVars, totalCost, rateWarnings, callerVars, histVars>>

FacadeNext ==
  \/ FacadeStreamChat
  \/ Next

FacadeSpec == FacadeInit /\ [][FacadeNext]_vars

(***************************************************************************)
(* Properties.                                                             *)
(***************************************************************************)
\* The stop reason with which a response asks for tool results.
ToolStop(a) == IF a = "anthropic" THEN "tool_use" ELSE "tool_calls"

\* The last entry pushed to toolResults.
LastToolResult == toolResults[Len(toolResults)]

\* TRUE when the location is the working directory or lies below it.
InsideCwd(loc) == Len(loc) >= Len(CWD) /\ SubSeq(loc, 1, Len(CWD)) = CWD

\* C1: in each adapter and for any provider behaviour, one turn consumes at
\* most 10 model responses and processes tool calls in at most 10 rounds.
RoundCeiling == requests <= MAX_TOOL_ROUNDS /\ toolRounds <= MAX_TOOL_ROUNDS

\* C1 witness: a turn has returned after 10 responses that all asked for tools.
RoundCeilingReached ==
  pc = "returned" /\ requests = MAX_TOOL_ROUNDS /\ toolRounds = MAX_TOOL_ROUNDS

\* C2: at most one warning is ever emitted, and a returned turn has emitted
\* exactly one if its 10th response still asked for tool calls and none
\* otherwise.
WarningAtCeiling ==
  /\ warnings <= 1
  /\ pc = "returned" =>
       (warnings = 1) =
         (requests = MAX_TOOL_ROUNDS /\ resp.stopReason = ToolStop(adapter) /\ resp.nCalls > 0)

\* C2 witness: a turn cut off by the ceiling has returned with its warning.
CeilingWarned == pc = "returned" /\ warnings = 1 /\ round = MAX_TOOL_ROUNDS

\* C3: while the approval of a call is pending, no step yields a new event,
\* invokes the executor, pushes a result, touches the disk or leaves the
\* await, whether or not the caller has already asked for the next event.
NoProgressWhilePending ==
  [][approval = "pending" =>
       /\ pc' = pc
       /\ round' = round
       /\ requests' = requests
       /\ callLog' = callLog
       /\ toolResults' = toolResults
       /\ files' = files /\ dirs' = dirs
       /\ (yielded' => yielded)]_vars

\* C3 witness: the caller has asked for the next event and the approval is
\* still pending.
PendingAfterNext == approval = "pending" /\ ~yielded /\ pc = "await"

\* C4 as claimed: after deny() on a write_file request the executor was not
\* invoked, the result fed back is the fixed denial text marked as an error,
\* and the tool_done event carries isError = true.
DeniedWriteMarkedError ==
  (pc = "next" /\ approval = "denied" /\ call.name = "write_file") =>
    /\ callLog.execs = 0 /\ callLog.ops = {}
    /\ LastToolResult.content = "User denied this file write."
    /\ "is_error" \in DOMAIN LastToolResult
    /\ LastToolResult.is_error
    /\ (yielded => event = StreamEvent("tool_done", "write_file", "Denied by user", TRUE))

\* C4 amended: after deny() on a write_file request the executor was not
\* invoked, the result fed back is the fixed denial text, carrying the error
\* mark in the Anthropic format and no error field in the Groq format, and
\* the tool_done event carries isError = true.
DeniedWriteFedBack ==
  (pc = "next" /\ approval = "denied" /\ call.name = "write_file") =>
    /\ callLog.execs = 0 /\ callLog.ops = {}
    /\ LastToolResult.content = "User denied this file write."
    /\ IF adapter = "anthropic"
         THEN "is_error" \in DOMAIN LastToolResult /\ LastToolResult.is_error
         ELSE "is_error" \notin DOMAIN LastToolResult
    /\ (yielded => event = StreamEvent("tool_done", "write_file", "Denied by user", TRUE))

\* C4 witness: the Groq adapter has fed back the denial of a write_file call.
GroqWriteDenied ==
  pc = "next" /\ approval = "denied" /\ call.name = "write_file" /\ adapter = "groq" /\ yielded

\* C5: a write_file call reaches tool_start and the executor only with its
\* approval asked and granted, unless write_file is configured "always"; and
\* while the approval is pending neither the executor nor the sandbox has
\* been consulted for the call.
WriteNeedsApproval ==
  call.name = "write_file" =>
    /\ (pc \in {"exec", "push"} \/ callLog.execs > 0) =>
         (callLog.asked /\ approval = "approved") \/ call.configured = "always"
    /\ approval = "pending" => callLog.execs = 0 /\ callLog.probes = 0

\* C5 witness: a write the sandbox denies was submitted, approved and only
\* then refused by the executor.
ApprovedWriteRefused ==
  /\ call.name = "write_file" /\ call.input = ToolInput(TRUE, "../a.ts", TRUE)
  /\ callLog.asked /\ approval = "approved"
  /\ callLog.execs = 1 /\ result.isError

\* C6 as claimed: a read_file call on a target the sandbox flags as sensitive
\* has its approval asked, and the file is read only after approve().
SensitiveReadGated ==
  (call.name = "read_file" /\ call.input.hasPath
     /\ validatePath(PathOf(call.input.path)).requiresApproval) =>
    /\ callLog.asked
    /\ callLog.ops # {} => approval = "approved"

\* C7 as claimed: no approval is asked for list_dir, search_files and
\* web_fetch calls.
OtherToolsNeverGated ==
  call.name \in {"list_dir", "search_files", "web_fetch"} =>
    ~callLog.asked /\ event.type # "tool_approve"

\* C8 as claimed: a call to a tool configured "never" never reaches the
\* executor.
DisabledNeverExecuted ==
  call.configured = "never" => pc \notin {"exec", "push"} /\ callLog.execs = 0

\* C9 as claimed: validatePath denies every path whose location on disk,
\* symbolic links followed, is outside the working directory.
OutsideDenied ==
  (sbResult # NoSandboxResult /\ ~InsideCwd(DiskLocation(resolve(CWD, sbInput)))) =>
    ~sbResult.allowed

HardBlockedDenied ==
  LET absSegs == resolve(CWD, sbInput)
      absPath == PathString(absSegs)
  IN
  (/\ sbResult # NoSandboxResult
   /\ \/ absSegs = CWD \o <<SegGit, SegConfig>>
      \/ \E blocked \in BLOCKED_PATHS : StartsWith(absPath, blocked \o <<"/">>) \/ absPath = blocked
      \/ \E dir \in BLOCKED_HOME_DIRS :
           StartsWith(absPath, PathString(HOME \o dir) \o <<"/">>) \/ absPath = PathString(HOME \o dir)
      \/ BLOCKED_PATTERNS(basename(absSegs)) \/ BLOCKED_PATTERNS(absPath))
    => ~sbResult.allowed

\* C12 as claimed: the token counts a turn returns are the sums, over its
\* rounds, of the input and output counts the provider reported.
TokensAreSums ==
  pc = "returned" =>
    /\ totalInputTokens = reportedInput
    /\ totalOutputTokens = reportedOutput

\* C13 as claimed: a turn with a model id that has no pricing entry returns
\* a total cost of 0, computed with zero prices, and a warning about the
\* unknown pricing has been emitted before the return, in the adapters and
\* in streamChat of claude.ts.
UnknownPricingFreeAndWarned ==
  pc = "returned" /\ ~getModelConfig(model).known =>
    /\ totalCost = 0
    /\ AdapterCostTail(model, totalInputTokens, totalOutputTokens).warning
    /\ ClaudeCostTail(model, totalInputTokens, totalOutputTokens).warning
    /\ ClaudeCostTail(model, totalInputTokens, totalOutputTokens).totalCost = 0

AbortKeepsWhatWasProduced ==
  aborted /\ turnResult = "null" => ~fullResponse /\ ~localSegments.done

\* TRUE for a failure of the network-reset class or with a status from
\* 500 to 599.
TransientFailure(e) ==
  e.isObject /\ ((e.isError /\ e.network) \/ (e.hasStatus /\ e.status \in 500..599))

RetryBounded ==
  rtOptions.maxRetries >= 0 =>
    /\ invocations <= rtOptions.maxRetries + 1
    /\ Len(delays) <= rtOptions.maxRetries
    /\ rtState = "thrown" =>
         invocations >= 1 /\ lastError.id = invocations /\ Len(delays) = invocations - 1
    /\ rtState = "returned" => lastError.id = invocations - 1
    /\ rtState \in {"returned", "thrown"} \/ invocations <= rtOptions.maxRetries

\* C17 witness: all maxRetries + 1 invocations failed and the last error
\* was thrown.
RetriesExhausted ==
  /\ rtState = "thrown" /\ rtOptions.maxRetries = MaxRetriesSampled
  /\ invocations = rtOptions.maxRetries + 1 /\ lastError.id = invocations

\* C18: the i-th wait is min(initialDelay * backoffMultiplier^(i-1),
\* maxDelay); the waits never decrease and none exceeds maxDelay.
BackoffSequence ==
  \A i \in 1..Len(delays) :
    /\ delays[i] =
         Min(rtOptions.initialDelay * Pow(rtOptions.backoffMultiplier, i - 1), rtOptions.maxDelay)
    /\ delays[i] <= rtOptions.maxDelay
    /\ i > 1 => delays[i - 1] <= delays[i]

\* C18 witness: a wait below the cap, then a wait cut down to the cap.
BackoffCapped ==
  /\ rtOptions.maxRetries >= 2
  /\ Len(delays) = 2 /\ delays[1] < delays[2] /\ delays[2] = rtOptions.maxDelay


\* C19 as claimed: in both adapters a transient failure of the provider
\* request reaches the caller of streamChat only after the request was
\* retried with backoff until the retries were exhausted.
TransientFailureRetried ==
  pc = "threw" /\ TransientFailure(thrown) =>
    /\ rtState = "thrown" /\ thrown = lastError
    /\ invocations = rtOptions.maxRetries + 1
    /\ Len(delays) = rtOptions.maxRetries

\* TRUE for a failure that is a rate limit: status 429 or the code
\* rate_limit_exceeded.
RateLimitFailure(e) ==
  e.isObject /\ ((e.hasStatus /\ e.status = 429) \/ e.code = "rate_limit_exceeded")

\* The Groq adapter on a failed provider request: one warning for a rate
\* limit and none for any other failure, the warning handed over before
\* the error is thrown, the error thrown the one the request failed with,
\* with no wait and no invocation after the one that failed.
RateLimitWarnedOnce ==
  adapter = "groq" =>
    /\ rateWarnings <= 1
    /\ pc = "rethrow" =>
         /\ RateLimitFailure(lastError) /\ rateWarnings = 1 /\ thrown = NoError
         /\ yielded => event.type = "warning"
    /\ pc = "threw" /\ thrown # AbortError /\ thrown.id # 0 =>
         /\ thrown = lastError
         /\ (rateWarnings = 1) = RateLimitFailure(thrown)
         /\ RateLimitFailure(thrown) =>
              invocations = thrown.id /\ Len(delays) = invocations - 1
    /\ pc \notin {"rethrow", "threw"} => rateWarnings = 0

EveryCallAudited ==
  (auditWritable /\ pc \in {"push", "next"}) =>
    /\ Len(auditLog) >= 2
    /\ auditLog[Len(auditLog) - 1].action = "tool_call"
    /\ auditLog[Len(auditLog)].action =
         (IF pc = "push" THEN "tool_approved" ELSE "tool_denied")
    /\ auditLog[Len(auditLog)].toolName = call.name

\* C22: with an audit log that cannot be written the Groq adapter goes on
\* as with one that can: nothing is recorded, the generator does not throw,
\* and the call is executed once and reported with the executor's result.
AuditFailureSwallowed ==
  ~auditWritable =>
    /\ auditLog = <<>>
    /\ pc # "threw"
    /\ pc = "push" =>
         /\ callLog.execs = 1
         /\ yielded => event = StreamEvent("tool_done", call.name, result.output, result.isError)
    /\ pc = "next" => callLog.execs = 0 /\ Len(toolResults) = idx

\* C22 witness: with an audit log that cannot be written a file was written
\* and the call reported as done without error.
WrittenWithoutAudit ==
  /\ ~auditWritable /\ pc = "push" /\ yielded
  /\ call.name = "write_file" /\ ~result.isError /\ files # {}
  /\ event.type = "tool_done"


\* C28: the tool results of a round are one per processed tool call, each
\* carrying the identifier of its call, in the order of the calls; a call is
\* taken up only after the one before it has its result, whether it was
\* executed, denied or disabled, and the entry fed back to the provider
\* holds one result for every call of the round.
ResultsInCallOrder ==
  /\ \A i \in 1..Len(toolResults) : ResultId(toolResults[i]) = CallId(round, i)
  /\ pc \in {"calls", "await", "exec", "push"} => Len(toolResults) = idx - 1
  /\ pc = "next" => Len(toolResults) = idx
  /\ pc = "endround" => Len(toolResults) = resp.nCalls
  /\ \A k \in 1..Len(apiMessages) :
       /\ Len(apiMessages[k].toolResults) = apiMessages[k].toolCalls
       /\ \A i \in 1..Len(apiMessages[k].toolResults) :
            /\ i > 1 => ResultId(apiMessages[k].toolResults[i]) =
                          ResultId(apiMessages[k].toolResults[i - 1]) + 1
            /\ i = 1 => ResultId(apiMessages[k].toolResults[1]) % (MaxCalls + 1) = 1

\* C28 witness: a round of two calls was fed back whose first call was
\* disabled or denied and whose second was executed.
MixedRoundFedBack ==
  /\ pc = "loop" /\ round > 0 /\ apiMessages # <<>>
  /\ apiMessages[1].toolCalls = 2
  /\ apiMessages[1].toolResults[1].content \in
       {"Tool is disabled by user configuration.", "User denied this file write.",
        "User denied this file read."}
  /\ apiMessages[1].toolResults[2].content \notin
       {"Tool is disabled by user configuration.", "User denied this file write.",
        "User denied this file read."}

\* C29 as claimed: a round before the last one ends the turn only if it
\* processed no tool call, and a round that processed one is followed by
\* another request whose history holds the results of that round.
ToolRoundFedBack ==
  /\ (pc = "after" /\ round < MAX_TOOL_ROUNDS - 1) => resp.nCalls = 0
  /\ (pc = "loop" /\ round > 0) =>
       /\ apiMessages # <<>>
       /\ apiMessages[1].toolCalls > 0
       /\ Len(apiMessages[1].toolResults) = apiMessages[1].toolCalls

\* C30 as claimed: once the abort signal is raised no tool call is executed
\* any more in that turn.
NoToolAfterAbort == [][aborted => callLog'.execs <= callLog.execs]_vars

\* C23 as claimed: a tool call with malformed arguments, a required field
\* missing or a field that is no string, is answered with an error and has
\* touched neither the filesystem nor the network.
MalformedCallRejected ==
  (pc = "push" /\ Malformed(call.name, call.input)) =>
    result.isError /\ callLog.ops = {}

\* C27: a turn of the facade whose model is not in the registry, or whose
\* provider has no API key in the environment, has thrown at the first
\* step or is about to: no event was yielded, no provider request issued,
\* no tool executed, and the caller has collected nothing.
FacadeRejectsAtOnce ==
  getProviderForModel(model) \notin apiKeys =>
    /\ pc \in {"facade", "threw"}
    /\ adapter = "(none)"
    /\ ~yielded /\ event = NoEvent
    /\ requests = 0 /\ invocations = 0
    /\ callLog = NoLog /\ files = {} /\ dirs = {}
    /\ ~fullResponse /\ localSegments = Segments(FALSE, 0, FALSE)
    /\ turnResult \in {"pending", "null"}

\* C27 witness: the facade was called with the short name of an Anthropic
\* model while only the Groq key was set, has thrown, and the caller has
\* ended the turn without a result.
FacadeThrewForMissingKey ==
  /\ pc = "threw" /\ model = "haiku" /\ apiKeys = {"groq"}
  /\ thrown = FacadeError /\ turnResult = "null" /\ uiError

\* C24 as claimed: the list of matches searchFiles returns holds at most 50
\* paths, whatever the directory tree.
SearchBounded == search.status = "done" => search.matches <= MaxMatches

\* The glob of the claim: ** stands for any sequence of characters, * for
\* any sequence without a separator, ? for one character, every other
\* character for itself.
RECURSIVE GlobTokens(_)
GlobTokens(pattern) ==
  IF pattern = <<>> THEN <<>>
  ELSE IF Len(pattern) >= 2 /\ pattern[1] = "*" /\ pattern[2] = "*"
    THEN <<AnyStar>> \o GlobTokens(SubSeq(pattern, 3, Len(pattern)))
    ELSE <<CASE Head(pattern) = "*" -> NonSepStar
             [] Head(pattern) = "?" -> AnyChar
             [] OTHER -> Lit(Head(pattern))>> \o GlobTokens(Tail(pattern))

\* C25 as claimed: both matchers accept a name exactly when the whole name
\* matches the glob without regard to case, matchesPattern for the last
\* segment of the pattern, shouldIgnoreFile for the pattern as written.
GlobAsClaimed ==
  /\ glob.fn = "matchesPattern" =>
       glob.result = RegexTest(GlobTokens(LastSegment(glob.pattern)), TRUE, glob.name)
  /\ glob.fn = "shouldIgnoreFile" =>
       glob.result = RegexTest(GlobTokens(glob.pattern), TRUE, NormalizedPath(glob.name))

\* C26 as claimed: a url whose scheme is not http or https, or whose host is
\* localhost or a loopback, private or link-local address literal, IPv4 or
\* bracketed IPv6, is answered with an error and no fetch is started.
FetchDeniedBeforeRequest ==
  (/\ fetch.status = "done"
   /\ \/ fetch.url.scheme \notin {"http", "https"}
      \/ fetch.url.host \in LocalhostNames \cup LoopbackHosts \cup PrivateHosts \cup LinkLocalHosts)
    => fetch.result.isError /\ fetch.ops = {}

\* C31 as claimed: with runStreamChat as the caller no approval is denied,
\* every approval that was asked for is given before the generator moves
\* on, and the turn does not end while an approval is asked for.
UiApprovesAtOnce ==
  /\ approval # "denied"
  /\ pc = "await" =>
       /\ turnResult = "pending"
       /\ ~yielded => approval = "approved"

\* C32 as claimed: while the Groq adapter waits for the approval of a
\* read_file call, the file it names has not been read from disk.
ProbeReadsNothing ==
  (adapter = "groq" /\ pc = "await" /\ call.name = "read_file" /\ approval = "pending") =>
    \A o \in callLog.ops : o.op # "read"

\* C33 as claimed: when a round produced both assistant text and tool calls,
\* the history entry the round appends for the next request carries that
\* text together with the tool calls and their results, in either adapter.
RoundTextFedBack ==
  (pc = "loop" /\ round > 0 /\ apiMessages # <<>> /\ resp.text /\ resp.nCalls > 0) =>
    /\ apiMessages[1].text
    /\ apiMessages[1].toolCalls = resp.nCalls
    /\ Len(apiMessages[1].toolResults) > 0

\* C34 as claimed: within a round a text_delta is yielded only before any
\* call of that round is taken up; a tool_start is yielded only on the way
\* into the execution of its call, and the execution is left only by
\* yielding the tool_done of the same call; the consumer's segment list
\* never holds more than one tool segment without output.
ToolEventsSequential ==
  /\ [](/\ localSegments.open + (IF yielded /\ event.type = "tool_start" THEN 1 ELSE 0) <= 1
        /\ (yielded /\ event.type = "text_delta") => (call = NoCall /\ toolResults = <<>>))
  /\ [][/\ (yielded' /\ event' # event /\ event'.type = "tool_start") =>
             (pc' = "exec" /\ event'.name = call'.name)
        /\ (pc = "exec" /\ pc' # "exec") =>
             /\ ~yielded /\ yielded'
             /\ call' = call
             /\ event' = StreamEvent("tool_done", call.name, result'.output, result'.isError)]_vars

\* The second call of a round with text has been executed and its tool_done
\* is with the consumer, whose list holds the one open segment of that call
\* after the closed one of the first.
SecondCallDoneInTurn ==
  /\ pc = "push" /\ yielded /\ event.type = "tool_done"
  /\ idx = 2 /\ resp.text
  /\ localSegments.text /\ localSegments.done /\ localSegments.open = 1

\* C35 as claimed: when the Groq adapter has consumed the stream of a
\* response, the usage the stream carried has been added to the turn's
\* totals, whether its chunk had a choice or an empty choices list.
GroqCountsUsageOnlyChunk ==
  [][(adapter = "groq" /\ pc = "stream" /\ ~aborted /\ pc' \in {"calls", "endround"}) =>
       /\ totalInputTokens' = totalInputTokens + resp.usage.input
       /\ totalOutputTokens' = totalOutputTokens + resp.usage.output]_vars

\* C36 as claimed: a turn that ran under a raised abort signal, or whose
\* generator threw, has left the session totals and the lifetime spend as
\* they were.
AbortedTurnLeavesTotals ==
  (turnResult # "pending" /\ (aborted \/ pc = "threw")) =>
    (totalUsage = NoUsage /\ lifetimeSpend = 0)

\* C36: the session totals and the lifetime spend change only when the
\* generator has returned: then the totals hold the usage it returned,
\* under a raised abort signal too; when it threw, a provider error or the
\* abort error, both are as they were, whatever the rounds before consumed.
TotalsOnlyOnReturn ==
  /\ (totalUsage # NoUsage \/ lifetimeSpend # 0) => (pc = "returned" /\ turnResult = "value")
  /\ (pc = "returned" /\ turnResult # "pending") =>
       /\ totalUsage = TurnUsage(totalInputTokens, totalOutputTokens, totalCost)
       /\ lifetimeSpend \in {0, totalCost}
  /\ pc = "threw" => (totalUsage = NoUsage /\ lifetimeSpend = 0)

\* A turn has ended by a thrown error after its rounds had consumed tokens,
\* and the totals are as they were.
FailedTurnAfterUsage ==
  /\ pc = "threw" /\ turnResult # "pending" /\ ~aborted
  /\ totalInputTokens > 0 /\ round > 0
  /\ totalUsage = NoUsage /\ lifetimeSpend = 0

\* C37: while the generator waits for a pending approval no step, the
\* raising of the abort signal included, moves it from the await, yields an
\* event, throws or ends the turn: the only change to the approval is its
\* settlement by approve() or deny(); and a settled approval is never turned
\* into the opposite decision by a later call of the other callback.
ApprovalOnlyReleasedByCaller ==
  [][/\ (pc = "await" /\ approval = "pending") =>
          /\ pc' = "await"
          /\ (yielded' => yielded /\ event' = event)
          /\ thrown' = thrown
          /\ turnResult' = turnResult
          /\ (aborted' # aborted => approval' = "pending")
     /\ (approval = "approved" => approval' # "denied")
     /\ (approval = "denied" => approval' # "approved")]_vars

\* The abort signal has been raised while the approval is pending, the
\* caller has asked for the next event, and the generator is still waiting.
AbortedWhilePending ==
  aborted /\ pc = "await" /\ approval = "pending" /\ ~yielded /\ turnResult = "pending"

\* C38: in the Anthropic adapter a read_file call on a path the sandbox
\* allows but marks as sensitive is executed without an approval request and
\* without any access to the disk, and its result is the notice that the
\* file may contain sensitive data, not marked as an error.
AnthropicNeverReadsSensitive ==
  (/\ adapter = "anthropic" /\ pc = "push"
   /\ call.name = "read_file" /\ call.input.hasPath
   /\ validatePath(AbsPath(resolve(CWD, PathOf(call.input.path)))).allowed
   /\ validatePath(AbsPath(resolve(CWD, PathOf(call.input.path)))).requiresApproval) =>
    /\ ~callLog.asked /\ approval = "none"
    /\ callLog.execs = 1 /\ callLog.ops = {}
    /\ result = [output |-> SensitiveNotice, isError |-> FALSE]
    /\ (yielded => event = StreamEvent("tool_done", "read_file", SensitiveNotice, FALSE))

\* The Anthropic adapter has executed a read_file call on a sensitive file
\* that exists on disk, and holds the notice as its result.
AnthropicSensitiveReadDone ==
  /\ adapter = "anthropic" /\ pc = "push" /\ call.name = "read_file" /\ call.input.hasPath
  /\ validatePath(AbsPath(resolve(CWD, PathOf(call.input.path)))).requiresApproval
  /\ DiskLocation(resolve(CWD, PathOf(call.input.path))) \in FilesOnDisk
  /\ result.output = SensitiveNotice

\* The result of an executed call whose streamed arguments did not parse:
\* the input is the empty object; read_file, search_files, write_file and
\* web_fetch answer with their missing-argument error, list_dir lists the
\* working directory.
UnparsableRunAsEmpty ==
  /\ call.input = NoInput
  /\ result = [output |-> executeTool(call.name, NoInput, FALSE).output,
               isError |-> call.name # "list_dir"]
  /\ call.name \in {"read_file", "write_file"} => result.output = "Missing or invalid 'path'"
  /\ call.name = "search_files" => result.output = "Missing or invalid 'pattern'"
  /\ call.name = "web_fetch" => result.output = "Missing or invalid 'url'"
  /\ call.name = "list_dir" => result.output = listDir(DotPath).output
  /\ callLog.execs = 1
  /\ callLog.ops = IF call.name = "list_dir" THEN listDir(DotPath).ops ELSE {}

\* C39 as claimed: in both adapters an executed call whose argument text did
\* not parse has run as a call with the empty input, and for write_file the
\* approval was requested and granted first.
UnparsableWriteAlwaysPrompted ==
  (pc = "push" /\ "truncated" \in DOMAIN resp.call.input) =>
    /\ UnparsableRunAsEmpty
    /\ call.name = "write_file" => (callLog.asked /\ approval = "approved")

\* C39: in both adapters an executed call whose argument text did not parse
\* has run as a call with the empty input; for write_file the approval was
\* requested and granted first, unless the Groq adapter finds write_file
\* configured "always".
UnparsableRunsWithEmptyInput ==
  (pc = "push" /\ "truncated" \in DOMAIN resp.call.input) =>
    /\ UnparsableRunAsEmpty
    /\ call.name = "write_file" =>
         \/ callLog.asked /\ approval = "approved"
         \/ adapter = "groq" /\ call.configured = "always"

\* A write_file call with unparsable arguments was submitted for approval,
\* approved, and answered with the missing-path error.
UnparsableWriteRefused ==
  /\ pc = "push" /\ "truncated" \in DOMAIN resp.call.input
  /\ call.name = "write_file" /\ call.input = NoInput
  /\ callLog.asked /\ approval = "approved"
  /\ result.output = "Missing or invalid 'path'" /\ result.isError

\* C40 as claimed: the input of a tool_use block whose events have ended is
\* the parse of the fragments that were sent with the block's own index,
\* in whatever order the events of the blocks arrived.
BlockInputFromOwnFragments ==
  \A i \in BlockIndices :
    blocks.contentBlocks[i] # NoBlock /\ blocks.contentBlocks[i].type = "tool_use"
      /\ blocks.contentBlocks[i].phase = "stopped" =>
        blocks.contentBlocks[i].input = ParseToolJson(blocks.sent[i])
=============================================================================
